---- MODULE Spec2Model ----
(***************************************************************************)
(* Model of the CEVO command engine: the line tokenizer, the DJB2 hash,    *)
(* the typed value parsers and the dispatch state machine of               *)
(* ce_dispatch_from_line.                                                  *)
(*                                                                         *)
(* Characters are their byte values (0 is the NUL terminator).  A C string *)
(* is the sequence of its bytes without the terminator; a buffer is a      *)
(* sequence of bytes in which a string starting at index p runs up to the  *)
(* first 0 at or after p.  Buffers are indexed from 1, so the C pointer    *)
(* buf + k is the index k + 1.                                             *)
(*                                                                         *)
(* TLC's integers are 32-bit, so values of the C types uint32_t, uint64_t  *)
(* and their signed relatives are kept as sequences of decimal digits,     *)
(* most significant first, without leading zeros (zero is <<0>>); the DJB2 *)
(* digest is kept as two 16-bit halves.                                    *)
(***************************************************************************)
EXTENDS Integers, Sequences, FiniteSets, TLC

VARIABLES
    table,          \* the signature table returned by ce_table_get_signatures
    pc,             \* position of the current call
    line_null,      \* ce_dispatch_from_line: line_str is NULL
    line_str,       \* ce_dispatch_from_line: the caller's line (bytes, no NUL)
    line_buf,       \* ce_dispatch_from_line: the private copy, tokenized in place
    tokens_apc,     \* ce_dispatch_from_line: token pointers (indices in line_buf, 0 = NULL)
    tokens_count,   \* ce_dispatch_from_line: number of tokens
    hash_u32,       \* ce_dispatch_from_line: digest of token 0
    sig_pst,        \* ce_dispatch_from_line: index of the matched entry, 0 = NULL
    args_a,         \* dispatch_command: the typed argument array
    scratch,        \* dispatch_command: [buffer, used] plus the bytes written past it
    arg_i,          \* parse_arguments: loop index i
    result,         \* return value of the call ("none" while it runs)
    steps,          \* the steps this call has executed, in order
    invoked,        \* ce_invoke_handler calls made by this call
    delivered,      \* what the handler read through the arguments it was given
    handler_ret,    \* what the handler returned
    unit,           \* a direct call of an internal function through the test API
    log_history,    \* logger.c: the circular buffer of {file_id, line} records
    log_history_idx,\* logger.c: the slot the next record goes to
    log_calls,      \* every record handed to log_event so far, oldest first
    other,          \* the locals of a second call that is waiting for its turn
    build           \* what the build does with a store past the end of scratch.buffer

vars == <<table, pc, line_null, line_str, line_buf, tokens_apc, tokens_count,
          hash_u32, sig_pst, args_a, scratch, arg_i, result, steps, invoked,
          delivered, handler_ret, unit,
          log_history, log_history_idx, log_calls, other, build>>

(***************************************************************************)
(* Program constants                                                       *)
(***************************************************************************)
MAX_TOKENS == 8
MAX_ARG_CONTENT_SIZE == 64
MAX_LINE_BUF_SIZE == 256
ARG_OFFSET == 1
MAX_PARSABLE_ARGUMENTS == MAX_TOKENS - ARG_OFFSET

(***************************************************************************)
(* Text helpers: the byte values of a string literal                       *)
(***************************************************************************)
Lower == "abcdefghijklmnopqrstuvwxyz"
Upper == "ABCDEFGHIJKLMNOPQRSTUVWXYZ"
Digits == "0123456789"

Index(alphabet, ch) == CHOOSE i \in 1..Len(alphabet) : SubSeq(alphabet, i, i) = ch

In(alphabet, ch) == \E i \in 1..Len(alphabet) : SubSeq(alphabet, i, i) = ch

Ord(ch) ==
    CASE In(Lower, ch) -> 96 + Index(Lower, ch)
      [] In(Upper, ch) -> 64 + Index(Upper, ch)
      [] In(Digits, ch) -> 47 + Index(Digits, ch)
      [] ch = " " -> 32
      [] ch = "+" -> 43
      [] ch = "-" -> 45
      [] ch = "_" -> 95

\* (the concatenation makes the value a sequence in TLC's eyes, not a function)
Str(s) == [i \in 1..Len(s) |-> Ord(SubSeq(s, i, i))] \o <<>>

Rep(s, n) == [i \in 1..(n * Len(s)) |-> s[((i - 1) % Len(s)) + 1]] \o <<>>

\* A loop of at most n iterations: Step is one evaluation of the loop's condition
\* and body and leaves a state alone once the loop has ended.  The halves are
\* evaluated in order (the comparison forces the first one).
RECURSIVE Iterate(_, _, _)
Iterate(Step(_), st, n) ==
    IF n = 0 THEN st
    ELSE IF n = 1 THEN Step(st)
    ELSE LET mid == Iterate(Step, st, n \div 2)
         IN  IF mid = mid THEN Iterate(Step, mid, n - (n \div 2)) ELSE st

\* The C string that starts at index p of buf: the bytes up to the first NUL.
CStr(buf, p) ==
    LET e == CHOOSE j \in p..Len(buf) :
                 buf[j] = 0 /\ \A k \in p..(j - 1) : buf[k] # 0
    IN  SubSeq(buf, p, e - 1)

(***************************************************************************)
(* Decimal arithmetic on digit sequences                                   *)
(***************************************************************************)
RECURSIVE NatNorm(_)
NatNorm(a) == IF Len(a) > 1 /\ a[1] = 0 THEN NatNorm(Tail(a)) ELSE a

NatPad(a, n) == [i \in 1..n |-> IF i <= n - Len(a) THEN 0 ELSE a[i - (n - Len(a))]]

NatLT(a, b) ==
    \/ Len(a) < Len(b)
    \/ /\ Len(a) = Len(b)
       /\ \E i \in 1..Len(a) : a[i] < b[i] /\ \A j \in 1..(i - 1) : a[j] = b[j]

NatGT(a, b) == NatLT(b, a)

NatLE(a, b) == ~NatLT(b, a)

RECURSIVE NatAddRec(_, _, _, _)
NatAddRec(a, b, i, c) ==
    IF i = 0 THEN <<>>
    ELSE LET s == a[i] + b[i] + c
         IN  Append(NatAddRec(a, b, i - 1, s \div 10), s % 10)

NatAdd(a, b) ==
    LET n == (IF Len(a) > Len(b) THEN Len(a) ELSE Len(b)) + 1
    IN  NatNorm(NatAddRec(NatPad(a, n), NatPad(b, n), n, 0))

RECURSIVE NatSubRec(_, _, _, _)
NatSubRec(a, b, i, br) ==
    IF i = 0 THEN <<>>
    ELSE LET d == a[i] - b[i] - br
         IN  Append(NatSubRec(a, b, i - 1, IF d < 0 THEN 1 ELSE 0),
                    IF d < 0 THEN d + 10 ELSE d)

\* a - b for a >= b
NatSub(a, b) ==
    LET n == Len(a)
    IN  NatNorm(NatSubRec(a, NatPad(b, n), n, 0))

NatMul10(a) == NatNorm(Append(a, 0))

\* The limit itself where the code compares with a tenth of it
NatDiv10_Whole(a) == a

NatDiv10(a) == IF Len(a) = 1 THEN <<0>> ELSE SubSeq(a, 1, Len(a) - 1)

\* x reduced to the range 0..max of an unsigned C type (arithmetic modulo max + 1)
RECURSIVE WrapU(_, _)
WrapU(x, max) == IF NatGT(x, max) THEN WrapU(NatSub(x, NatAdd(max, <<1>>)), max) ELSE x

UINT8_MAX == <<2, 5, 5>>
UINT16_MAX == <<6, 5, 5, 3, 5>>
UINT32_MAX == <<4, 2, 9, 4, 9, 6, 7, 2, 9, 5>>
UINT64_MAX == <<1, 8, 4, 4, 6, 7, 4, 4, 0, 7, 3, 7, 0, 9, 5, 5, 1, 6, 1, 5>>
INT8_MAX == <<1, 2, 7>>
INT16_MAX == <<3, 2, 7, 6, 7>>
INT32_MAX == <<2, 1, 4, 7, 4, 8, 3, 6, 4, 7>>
INT64_MAX == <<9, 2, 2, 3, 3, 7, 2, 0, 3, 6, 8, 5, 4, 7, 7, 5, 8, 0, 7>>


(***************************************************************************)
(* parser_utils.c                                                          *)
(***************************************************************************)
\* wrapped: some multiplication, addition or subtraction of the loop left the
\* range of its unsigned C type; over: the accumulator exceeded the limit
Fail == [ok |-> FALSE, val |-> <<0>>, neg |-> FALSE, ub |-> FALSE,
         wrapped |-> FALSE, over |-> FALSE]

\* The character itself, upper-case letters not folded
ascii_tolower_None(c) == c

ascii_tolower(c) == IF 65 <= c /\ c <= 90 THEN c + (97 - 65) ELSE c

ascii_to_digit(c) == IF 48 <= c /\ c <= 57 THEN [ok |-> TRUE, out |-> c - 48]
                     ELSE [ok |-> FALSE, out |-> 0]

\* The hex digit's value with 'A' to 'F' taken as 0 to 5, the offset of digits
ascii_to_hex_NoTen(c) ==
    LET lower == ascii_tolower(c)
    IN  IF 48 <= lower /\ lower <= 57 THEN [ok |-> TRUE, out |-> lower - 48]
        ELSE IF 97 <= lower /\ lower <= 102 THEN [ok |-> TRUE, out |-> lower - 97]
        ELSE [ok |-> FALSE, out |-> 0]

ascii_to_hex(c) ==
    LET lower == ascii_tolower(c)
    IN  IF 48 <= lower /\ lower <= 57 THEN [ok |-> TRUE, out |-> lower - 48]
        ELSE IF 97 <= lower /\ lower <= 102 THEN [ok |-> TRUE, out |-> 10 + (lower - 97)]
        ELSE [ok |-> FALSE, out |-> 0]

\* a - b in an unsigned C type whose largest value is accmax
USub(a, b, accmax) ==
    IF NatLE(b, a) THEN NatSub(a, b)
    ELSE NatSub(NatAdd(accmax, <<1>>), NatSub(b, a))

\* One iteration of the digit loop shared by the integer parsers: limit is the
\* bound compared against, accmax the largest value of the accumulator's C type.
\* The loop ends at the NUL (done, ok) or at a return false (done, not ok).
\* value += digit, or return false where the digit does not fit under the limit;
\* v10 is value after value *= 10u, wrapped whether an operation so far left the
\* range of the accumulator's type, over whether v10 is above the limit
DigitAdd(st, digit, v10, wrapped, over, sum) ==
    IF NatGT(<<digit>>, USub(st.limit, v10, st.accmax))
    THEN [st EXCEPT !.done = TRUE, !.val = v10, !.wrapped = wrapped, !.over = @ \/ over]
    ELSE [st EXCEPT !.i = st.i + 1,
                    !.val = sum,
                    !.wrapped = wrapped \/ NatGT(sum, st.accmax),
                    !.over = @ \/ over \/ NatGT(sum, st.limit)]

\* value *= 10u in the accumulator's type; raw10 is ten times value as a number
DigitTimesTen(st, digit, raw10, v10) ==
    DigitAdd(st, digit, v10,
             st.wrapped \/ NatGT(raw10, st.accmax) \/ NatGT(v10, st.limit),
             NatGT(v10, st.limit),
             NatAdd(v10, <<digit>>))

DigitStep(st) ==
    IF st.done THEN st
    ELSE IF st.i > Len(st.s) THEN [st EXCEPT !.done = TRUE, !.ok = TRUE]
    ELSE LET d == ascii_to_digit(st.s[st.i])
         IN  IF ~d.ok THEN [st EXCEPT !.done = TRUE]
             ELSE IF NatGT(st.val, NatDiv10(st.limit)) THEN [st EXCEPT !.done = TRUE]
             ELSE DigitTimesTen(st, d.out, NatMul10(st.val),
                                WrapU(NatMul10(st.val), st.accmax))

DigitLoop(s, i, value, limit, accmax) ==
    Iterate(DigitStep,
            [s |-> s, i |-> i, val |-> value, limit |-> limit, accmax |-> accmax,
             done |-> FALSE, ok |-> FALSE, wrapped |-> FALSE, over |-> FALSE],
            Len(s) + 1)

\* *out = (uintN_t)value; return true after the loop, return false from inside it
UnsignedResult(r, max) ==
    [Fail EXCEPT !.ok = r.ok, !.val = IF r.ok THEN WrapU(r.val, max) ELSE <<0>>,
                 !.wrapped = r.wrapped, !.over = r.over]

\* The unsigned parser without its test for the empty string
ParseUnsigned_AcceptsEmpty(s, max, accmax) ==
    UnsignedResult(DigitLoop(s, 1, <<0>>, max, accmax), max)

ParseUnsigned(s, max, accmax) ==
    IF s = <<>> THEN Fail
    ELSE UnsignedResult(DigitLoop(s, 1, <<0>>, max, accmax), max)

parse_u8(s) == ParseUnsigned(s, UINT8_MAX, UINT32_MAX)

parse_u16(s) == ParseUnsigned(s, UINT16_MAX, UINT32_MAX)

parse_u32(s) == ParseUnsigned(s, UINT32_MAX, UINT64_MAX)

parse_u64(s) == ParseUnsigned(s, UINT64_MAX, UINT64_MAX)

\* A signed value is [neg, val]: the sign and the magnitude; zero is never negative.
\* ub marks the result of negating the most negative value of the type, which
\* the cast-then-negate of the code computes with signed overflow.
\* *out = negative ? -(intN_t)value : (intN_t)value; return true after the loop,
\* return false from inside it.  ub: the negation overflows the signed type
SignedResult(r, negative, intmax) ==
    IF ~r.ok THEN [Fail EXCEPT !.wrapped = r.wrapped, !.over = r.over]
    ELSE [ok |-> TRUE, val |-> r.val,
          neg |-> negative /\ r.val # <<0>>,
          ub |-> negative /\ NatGT(r.val, intmax),
          wrapped |-> r.wrapped, over |-> r.over]

ParseSigned(s, intmax, accmax) ==
    LET negative == s # <<>> /\ s[1] = 45
        start == IF s # <<>> /\ (s[1] = 45 \/ s[1] = 43) THEN 2 ELSE 1
        max_before_mul == IF negative THEN NatAdd(intmax, <<1>>) ELSE intmax
    IN  IF start > Len(s) THEN Fail
        ELSE SignedResult(DigitLoop(s, start, <<0>>, max_before_mul, accmax),
                          negative, intmax)

parse_i32(s) == ParseSigned(s, INT32_MAX, UINT32_MAX)

parse_i64(s) == ParseSigned(s, INT64_MAX, UINT64_MAX)

\* parse_i8 and parse_i16: parse_i32, then the range check on tmp
NarrowResult(tmp, intmax) ==
    IF \/ ~tmp.ok
       \/ tmp.neg /\ NatGT(tmp.val, NatAdd(intmax, <<1>>))
       \/ ~tmp.neg /\ NatGT(tmp.val, intmax)
    THEN [Fail EXCEPT !.ub = tmp.ub, !.wrapped = tmp.wrapped, !.over = tmp.over]
    ELSE tmp

ParseNarrow(s, intmax) == NarrowResult(parse_i32(s), intmax)

parse_i8(s) == ParseNarrow(s, INT8_MAX)

parse_i16(s) == ParseNarrow(s, INT16_MAX)

\* token[i] of a NUL-terminated string, i counted from 0
CharAt(token, i) == IF i < Len(token) THEN token[i + 1] ELSE 0

\* The index at which the comparison loop of parse_boolean_token stops
RECURSIVE LitLoop(_, _, _)
LitLoop(token, lit, i) ==
    IF CharAt(lit, i) = 0 THEN i
    ELSE IF ascii_tolower(CharAt(token, i)) # CharAt(lit, i) THEN i
    ELSE LitLoop(token, lit, i + 1)

LitMatch(token, lit) ==
    LET i == LitLoop(token, lit, 0)
    IN  CharAt(lit, i) = 0 /\ CharAt(token, i) = 0

parse_boolean_token(token) ==
    IF LitMatch(token, Str("true")) THEN [ok |-> TRUE, b |-> TRUE]
    ELSE IF LitMatch(token, Str("false")) THEN [ok |-> TRUE, b |-> FALSE]
    ELSE IF token = Str("1") THEN [ok |-> TRUE, b |-> TRUE]
    ELSE IF token = Str("0") THEN [ok |-> TRUE, b |-> FALSE]
    ELSE [ok |-> FALSE, b |-> FALSE]

\* One iteration of the conversion loop of parse_hex_string.  The loop ends after
\* len / 2 bytes (done, ok) or at a character that is no hex digit (done, not ok);
\* out holds the bytes stored in out_buf[0..] so far.
HexStep(st) ==
    IF st.done THEN st
    ELSE IF st.i >= Len(st.s) \div 2 THEN [st EXCEPT !.done = TRUE, !.ok = TRUE]
    ELSE LET hi == ascii_to_hex(st.s[(st.i * 2) + 1])
             lo == ascii_to_hex(st.s[(st.i * 2) + 2])
         IN  IF ~hi.ok \/ ~lo.ok THEN [st EXCEPT !.done = TRUE]
             ELSE [st EXCEPT !.i = st.i + 1,
                             !.out = Append(st.out, (hi.out * 16) + lo.out)]

HexLoop(s) ==
    Iterate(HexStep, [s |-> s, i |-> 0, out |-> <<>>, done |-> FALSE, ok |-> FALSE],
            (Len(s) \div 2) + 1)

\* [ok, out, len]: the return value, the bytes written to out_buf (also when the
\* call fails part-way) and *out_len (written only on success).
parse_hex_string(s, max_len) ==
    LET len == Len(s)
    IN  IF len = 0 THEN [ok |-> FALSE, out |-> <<>>, len |-> 0]
        ELSE IF len % 2 # 0 THEN [ok |-> FALSE, out |-> <<>>, len |-> 0]
        ELSE IF len \div 2 > max_len THEN [ok |-> FALSE, out |-> <<>>, len |-> 0]
        ELSE LET r == HexLoop(s)
             IN  [ok |-> r.ok, out |-> r.out, len |-> IF r.ok THEN len \div 2 ELSE 0]

(***************************************************************************)
(* ce_hash.c: DJB2 on 32 bits, kept as <<high 16 bits, low 16 bits>>       *)
(***************************************************************************)
U32Add(a, b) ==
    LET lo == a[2] + b[2]
    IN  <<(a[1] + b[1] + (lo \div 65536)) % 65536, lo % 65536>>

U32Shl(a, n) ==
    LET f == 2 ^ n
    IN  <<((a[1] * f) + ((a[2] * f) \div 65536)) % 65536, (a[2] * f) % 65536>>

DJB2_INIT_HASH == <<0, 5381>>
DJB2_HASH_SHIFT == 5

\* (uint32_t)c for the char c holding the byte c: where char is a signed type a
\* byte of 0x80 or more is a negative char, and the conversion gives 2^32 + c - 256
CharToU32(c, char_signed) ==
    IF char_signed /\ c >= 128 THEN <<65535, 65280 + c>> ELSE <<0, c>>

\* One iteration of while ((c = *str++) != 0)
HashStep(st) ==
    IF st.i > Len(st.str) THEN st
    ELSE [st EXCEPT !.i = st.i + 1,
                    !.hash = U32Add(U32Add(U32Shl(st.hash, DJB2_HASH_SHIFT), st.hash),
                                    CharToU32(st.str[st.i], st.char_signed))]

HashLoop(str, hash, char_signed) ==
    Iterate(HashStep, [str |-> str, i |-> 1, hash |-> hash,
                       char_signed |-> char_signed], Len(str)).hash

\* ce_hash_calculate on a non-null string, in a build whose char is signed or not
ce_hash_calculate(str, char_signed) == HashLoop(str, DJB2_INIT_HASH, char_signed)


(***************************************************************************)
(* ce_types.h: argument type tags and signatures                           *)
(***************************************************************************)
TYPE_UINT8_e == 0
TYPE_UINT16_e == 1
TYPE_UINT32_e == 2
TYPE_UINT64_e == 3
TYPE_INT8_e == 4
TYPE_INT16_e == 5
TYPE_INT32_e == 6
TYPE_INT64_e == 7
TYPE_BOOL_e == 8
TYPE_STRING_e == 9
TYPE_UINT8_PTR_e == 10

\* One ce_signature_st entry as the generator emits it for a command name
Sig(name, types) ==
    [hash_u32 |-> ce_hash_calculate(Str(name), FALSE), handler |-> name,
     types_e |-> types, type_count_u8 |-> Len(types)]

\* ce_arg_value_ut: the union's members that the parsers write
ArgZero == [val |-> <<0>>, neg |-> FALSE, b |-> FALSE, ptr |-> 0]

(***************************************************************************)
(* ce_dispatch.c                                                           *)
(***************************************************************************)
\* IS_WHITESPACE without the carriage return
IS_WHITESPACE_NoCR(c) == c = 32 \/ c = 9 \/ c = 10

\* IS_WHITESPACE without the tab
IS_WHITESPACE_NoTab(c) == c = 32 \/ c = 13 \/ c = 10

IS_WHITESPACE(c) == c = 32 \/ c = 9 \/ c = 13 \/ c = 10

\* validate_argument_count accepting surplus arguments
validate_argument_count_AtLeast(count, sig_is_null, type_count_u8) ==
    IF sig_is_null THEN FALSE
    ELSE LET arg_count == IF count > 0 THEN count - 1 ELSE 0
         IN  arg_count >= type_count_u8

validate_argument_count(count, sig_is_null, type_count_u8) ==
    IF sig_is_null THEN FALSE
    ELSE LET arg_count == IF count > 0 THEN count - 1 ELSE 0
         IN  arg_count = type_count_u8

\* lookup_signature_by_hash: the index of the first entry with this hash, 0 for NULL
RECURSIVE LookupLoop(_, _, _)
\* The scan that goes on after a match and keeps the last one
RECURSIVE LookupLoop_KeepsLast(_, _, _)
LookupLoop_KeepsLast(tbl, hash, i) ==
    IF i > Len(tbl) THEN 0
    ELSE LET later == LookupLoop_KeepsLast(tbl, hash, i + 1)
         IN  IF later # 0 THEN later
             ELSE IF tbl[i].hash_u32 = hash THEN i ELSE 0

LookupLoop(tbl, hash, i) ==
    IF i > Len(tbl) THEN 0
    ELSE IF tbl[i].hash_u32 = hash THEN i
    ELSE LookupLoop(tbl, hash, i + 1)

\* lookup_signature_by_hash falling back to the first entry on a miss
lookup_signature_or_first(tbl, hash) ==
    IF LookupLoop(tbl, hash, 1) = 0 THEN 1 ELSE LookupLoop(tbl, hash, 1)

lookup_signature_by_hash(tbl, hash) == LookupLoop(tbl, hash, 1)

\* One iteration of the first loop of parse_line_to_tokens
TokenStep(st) ==
    IF st.buf[st.ptr] # 0 /\ st.count < MAX_TOKENS
    THEN IF IS_WHITESPACE(st.buf[st.ptr])
         THEN [st EXCEPT !.buf[st.ptr] = 0, !.in_token = FALSE, !.ptr = st.ptr + 1]
         ELSE IF ~st.in_token
         THEN [st EXCEPT !.tokens[st.count + 1] = st.ptr, !.count = st.count + 1,
                         !.in_token = TRUE, !.ptr = st.ptr + 1]
         ELSE [st EXCEPT !.ptr = st.ptr + 1]
    ELSE st

TokenLoop(buf, tokens) ==
    Iterate(TokenStep,
            [buf |-> buf, ptr |-> 1, count |-> 0, in_token |-> FALSE, tokens |-> tokens],
            Len(buf))

\* One iteration of the second loop: consume the rest of the token the first
\* loop stopped in
RestStep(st) ==
    IF st.buf[st.ptr] # 0 /\ ~IS_WHITESPACE(st.buf[st.ptr])
    THEN [st EXCEPT !.ptr = st.ptr + 1]
    ELSE st

RestOfToken(buf, ptr) == Iterate(RestStep, [buf |-> buf, ptr |-> ptr], Len(buf)).ptr

\* The third loop left out
TrailingStep_NoSkip(st) == st

\* One iteration of the third loop: skip and NUL-terminate trailing whitespace
TrailingStep(st) ==
    IF st.buf[st.ptr] # 0 /\ IS_WHITESPACE(st.buf[st.ptr])
    THEN [st EXCEPT !.buf[st.ptr] = 0, !.ptr = st.ptr + 1]
    ELSE st

TrailingLoop(buf, ptr) == Iterate(TrailingStep, [buf |-> buf, ptr |-> ptr], Len(buf))

\* parse_line_to_tokens on a NUL-terminated buffer: [ok, buf, tokens, count], where
\* count is *tokens_count after the call (count_in when it is not written).
parse_line_to_tokens(line, tokens, count_in) ==
    LET a == TokenLoop(line, tokens)
        p == IF a.in_token /\ a.count = MAX_TOKENS THEN RestOfToken(a.buf, a.ptr)
             ELSE a.ptr
        t == TrailingLoop(a.buf, p)
    IN  IF a.count = MAX_TOKENS /\ t.buf[t.ptr] # 0
        THEN [ok |-> FALSE, buf |-> t.buf, tokens |-> a.tokens, count |-> count_in]
        ELSE [ok |-> TRUE, buf |-> t.buf, tokens |-> a.tokens, count |-> a.count]

\* Storing bytes at scratch.buffer + used: the memory afterwards
StoreBytes(mem, used, bytes) ==
    [k \in 1..Len(mem) |->
        IF used < k /\ k <= used + Len(bytes) THEN bytes[k - used] ELSE mem[k]] \o <<>>

\* parse_value_by_type for the scalar and string types: [ok, arg], arg being the
\* union after the call
ScalarArg(r, old) == IF r.ok THEN [old EXCEPT !.val = r.val, !.neg = r.neg] ELSE old

parse_value_by_type(type_e, token, token_ptr, old) ==
    CASE type_e = TYPE_UINT8_e ->
            LET r == parse_u8(token) IN [ok |-> r.ok, arg |-> ScalarArg(r, old)]
      [] type_e = TYPE_UINT16_e ->
            LET r == parse_u16(token) IN [ok |-> r.ok, arg |-> ScalarArg(r, old)]
      [] type_e = TYPE_UINT32_e ->
            LET r == parse_u32(token) IN [ok |-> r.ok, arg |-> ScalarArg(r, old)]
      [] type_e = TYPE_UINT64_e ->
            LET r == parse_u64(token) IN [ok |-> r.ok, arg |-> ScalarArg(r, old)]
      [] type_e = TYPE_INT8_e ->
            LET r == parse_i8(token) IN [ok |-> r.ok, arg |-> ScalarArg(r, old)]
      [] type_e = TYPE_INT16_e ->
            LET r == parse_i16(token) IN [ok |-> r.ok, arg |-> ScalarArg(r, old)]
      [] type_e = TYPE_INT32_e ->
            LET r == parse_i32(token) IN [ok |-> r.ok, arg |-> ScalarArg(r, old)]
      [] type_e = TYPE_INT64_e ->
            LET r == parse_i64(token) IN [ok |-> r.ok, arg |-> ScalarArg(r, old)]
      [] type_e = TYPE_BOOL_e ->
            LET r == parse_boolean_token(token)
            IN  [ok |-> r.ok, arg |-> IF r.ok THEN [old EXCEPT !.b = r.b] ELSE old]
      [] type_e = TYPE_STRING_e ->
            [ok |-> TRUE, arg |-> [old EXCEPT !.ptr = token_ptr]]
      [] OTHER -> [ok |-> FALSE, arg |-> old]


(***************************************************************************)
(* Inputs: signature tables and lines                                      *)
(***************************************************************************)
MaxArgs == 8         \* lines carry up to this many argument tokens
MaxUnitTokens == 10  \* the tokenizer is called on lines of up to this many tokens
MaxTable == 3        \* the lookup is called on tables of up to this many entries
MaxCalls == 2        \* a dispatch is followed by up to this many further dispatches
MaxLogCalls == 11    \* log_event is called up to this many times in a row

Space == <<32>>

RECURSIVE Join(_, _)
Join(toks, sep) ==
    IF toks = <<>> THEN <<>>
    ELSE IF Len(toks) = 1 THEN toks[1]
    ELSE toks[1] \o sep \o Join(Tail(toks), sep)

\* The commands of the demo (unit_test/demo.h and the end-to-end tests)
DemoTable ==
    << Sig("cat_string", <<TYPE_STRING_e>>),
       Sig("cat_byte", <<TYPE_UINT8_e>>),
       Sig("cat_bytes", <<TYPE_UINT8_PTR_e, TYPE_UINT8_e>>),
       Sig("void", <<>>),
       Sig("cat_mixed", <<TYPE_UINT8_PTR_e, TYPE_UINT8_PTR_e, TYPE_STRING_e,
                          TYPE_STRING_e, TYPE_UINT8_PTR_e, TYPE_INT64_e,
                          TYPE_UINT32_e>>) >>

\* A table that uses the remaining type tags, and one tag outside the enumeration
TypesTable ==
    << Sig("nums", <<TYPE_UINT16_e, TYPE_UINT32_e, TYPE_UINT64_e, TYPE_INT8_e,
                     TYPE_INT16_e, TYPE_INT32_e, TYPE_INT64_e>>),
       Sig("flag", <<TYPE_BOOL_e>>),
       Sig("odd", <<TYPE_UINT8_PTR_e + 1>>) >>

Tables == {DemoTable, TypesTable}

CmdNames == {"cat_string", "cat_byte", "cat_bytes", "void", "cat_mixed",
             "nums", "flag", "odd", "nonexistent_command"}

\* A token of each type that parses
Baseline(t) ==
    CASE t = TYPE_UINT8_e -> Str("22")
      [] t = TYPE_UINT16_e -> Str("65535")
      [] t = TYPE_UINT32_e -> Str("987654321")
      [] t = TYPE_UINT64_e -> Str("18446744073709551615")
      [] t = TYPE_INT8_e -> Str("-128")
      [] t = TYPE_INT16_e -> Str("+32767")
      [] t = TYPE_INT32_e -> Str("-2147483647")
      [] t = TYPE_INT64_e -> Str("-123456789")
      [] t = TYPE_BOOL_e -> Str("true")
      [] t = TYPE_STRING_e -> Str("foo")
      [] t = TYPE_UINT8_PTR_e -> Str("010203")
      [] OTHER -> Str("1")

\* Tokens tried at a position of each type: accepted and rejected ones
Choices(t) ==
    CASE t = TYPE_UINT8_e -> {Str("0"), Str("255"), Str("256"), Str("007"), Str("1x"),
                              Str("-1"), Str("not_a_number")}
      [] t = TYPE_UINT16_e -> {Str("0"), Str("65536")}
      [] t = TYPE_UINT32_e -> {Str("4294967295"), Str("4294967296")}
      [] t = TYPE_UINT64_e -> {Str("7"), Str("18446744073709551616")}
      [] t = TYPE_INT8_e -> {Str("127"), Str("128"), Str("-129"), Str("+5"), Str("-")}
      [] t = TYPE_INT16_e -> {Str("-32768"), Str("32768")}
      [] t = TYPE_INT32_e -> {Str("2147483647"), Str("2147483648"), Str("-0")}
      [] t = TYPE_INT64_e -> {Str("9223372036854775807"), Str("9223372036854775808"),
                              Str("--1")}
      [] t = TYPE_BOOL_e -> {Str("TRUE"), Str("False"), Str("1"), Str("0"), Str("yes"),
                             Str("tru"), Str("truex")}
      [] t = TYPE_STRING_e -> {Str("hello_world"), Str("123"),
                               Rep(Str("s"), MAX_ARG_CONTENT_SIZE),
                               Rep(Str("s"), MAX_ARG_CONTENT_SIZE + 1)}
      [] t = TYPE_UINT8_PTR_e -> {Str("0A0b0C"), Str("D00EFFAA"), Str("0g"), Str("0102zz"),
                                  Str("012"),
                                  Rep(Str("7f"), MAX_ARG_CONTENT_SIZE),
                                  Rep(Str("7f"), MAX_ARG_CONTENT_SIZE + 1)}
      [] OTHER -> {Str("1")}

AllSigs == UNION {{tbl[i] : i \in 1..Len(tbl)} : tbl \in Tables}

\* The baseline line of a signature with the token at one position replaced
VaryOne(sig) ==
    UNION {{Join(<<Str(sig.handler)>> \o
                 [j \in 1..Len(sig.types_e) |->
                     IF j = i THEN tok ELSE Baseline(sig.types_e[j])], Space)
            : tok \in Choices(sig.types_e[i]) \cup {Baseline(sig.types_e[i])}}
           : i \in 1..Len(sig.types_e)}

\* Every command name followed by 0..MaxArgs argument tokens
CountLines ==
    {Join(<<Str(nm)>> \o [j \in 1..k |-> Str("1")], Space) :
        nm \in CmdNames, k \in 0..MaxArgs}

\* cat_mixed with binary arguments of several sizes; the three arguments carry
\* different byte values
HexSizes == {1, 32, 33, 64}

SecondHex == {Rep(Str("b2"), b) : b \in HexSizes} \cup {Str("00")}

BinaryLines ==
    {Join(<<Str("cat_mixed"), Rep(Str("A1"), a), second, Str("foo"),
            Str("bar"), Rep(Str("C3"), c), Str("-5"), Str("7")>>, Space) :
        a \in HexSizes, second \in SecondHex, c \in HexSizes}

\* cat_mixed whose first binary argument fills the scratch buffer and whose
\* second one, or last argument, is rejected
FullThenRejected ==
    {Join(<<Str("cat_mixed"), Rep(Str("A1"), MAX_ARG_CONTENT_SIZE), second, Str("foo"),
            Str("bar"), Str("C3"), Str("-5"), last>>, Space) :
        second \in {Str("01zz"), Str("00")}, last \in {Str("7"), Str("x")}}

WhitespaceLines == {<<>>, <<32>>, <<13>>, <<13, 10>>, Rep(Space, 5), <<9, 32, 10>>}

SeparatorLines ==
    {<<32, 32>> \o Str("void") \o <<13, 10>>,
     Str("cat_byte") \o <<9>> \o Str("22") \o <<10>>,
     Str("cat_bytes") \o <<32, 32>> \o Str("010203") \o <<32, 9, 32>> \o Str("3") \o <<32>>,
     <<9>> \o Str("flag") \o <<13>> \o Str("False"),
     Str("cat_string hello_world"),
     Str("cat_bytes 010203AABBCCEE 7"),
     Str("cat_mixed 010203 0A0B0C foo bar D00EFFAA -123456789 987654321")}

LongLines ==
    {Rep(Str("a"), MAX_LINE_BUF_SIZE - 1),
     Rep(Str("a"), MAX_LINE_BUF_SIZE),
     Str("void") \o Rep(Space, MAX_LINE_BUF_SIZE - 5),
     Str("void") \o Rep(Space, MAX_LINE_BUF_SIZE - 4),
     Rep(Str("a "), (MAX_LINE_BUF_SIZE \div 2) - 1),
     Rep(Str("a "), MAX_LINE_BUF_SIZE \div 2),
     Rep(Space, MAX_LINE_BUF_SIZE)}

Lines ==
    (UNION {VaryOne(sig) : sig \in AllSigs}) \cup CountLines \cup BinaryLines
    \cup FullThenRejected \cup WhitespaceLines \cup SeparatorLines \cup LongLines

\* Lines for the tokenizer alone: n tokens of one shape, with one separator
\* between them, after a lead and before a trail
Separators == {<<32>>, <<9>>, <<13, 10>>, <<32, 9, 32>>}
Leads == {<<>>, <<32>>, <<13, 10>>}
Trails == {<<>>, <<32>>, <<10, 9, 32>>}
Shapes == {Str("a"), Str("ab1")}

\* Vertical tab, form feed and other bytes that are no separators
ControlLines ==
    {Str("a") \o <<11>> \o Str("b"), <<12>> \o Str("ab") \o <<32, 11>>,
     Str("a") \o <<160>> \o Str("b") \o <<9>> \o Str("c"), <<1, 32, 127>>}

TokenizerLines ==
    {lead \o Join([j \in 1..n |-> shape], sep) \o trail :
        lead \in Leads, n \in 0..MaxUnitTokens, shape \in Shapes,
        sep \in Separators, trail \in Trails}
    \cup {l \in Lines : Len(l) < MAX_LINE_BUF_SIZE}
    \cup ControlLines


(***************************************************************************)
(* The state machine                                                       *)
(***************************************************************************)
Zeros(n) == [i \in 1..n |-> 0] \o <<>>

\* Offsets of the scratch memory that the model keeps: the buffer itself,
\* offsets 0..MAX_ARG_CONTENT_SIZE-1, and what lies behind it as far as a
\* cursor of one byte plus one line's hex digits can reach
ScratchSpan == MAX_ARG_CONTENT_SIZE + (2 * MAX_LINE_BUF_SIZE)

\* scratch_buffer_st scratch = { .used = 0u }
ScratchInit == [mem |-> Zeros(ScratchSpan), used |-> 0]

(***************************************************************************)
(* logger.c: the history of events                                         *)
(***************************************************************************)
LOG_HISTORY_SIZE == 10

CE_FILE_DISPATCH_e == 0
CE_FILE_PARSER_UTILS_e == 1

\* static log_entry_st log_history[LOG_HISTORY_SIZE]: zero-initialised storage
LogInit == [history |-> [k \in 1..LOG_HISTORY_SIZE |-> [file_id |-> 0, line |-> 0]] \o <<>>,
            idx |-> 0]

\* log_event whose index stops at the last slot instead of going round
log_event_Saturating(h, file_id, line) ==
    [history |-> [h.history EXCEPT ![h.idx + 1] = [file_id |-> file_id, line |-> line]],
     idx |-> IF h.idx + 1 < LOG_HISTORY_SIZE THEN h.idx + 1 ELSE h.idx]

\* log_event: store the record at log_history_idx, then step the index round
log_event(h, file_id, line) ==
    [history |-> [h.history EXCEPT ![h.idx + 1] = [file_id |-> file_id, line |-> line]],
     idx |-> (h.idx + 1) % LOG_HISTORY_SIZE]

\* LOG_ERR of the release build: log_event(file_id, (uint16_t)__LINE__), once
\* for each source line in lines, in order
RECURSIVE LOG_ERR(_, _, _)
LOG_ERR(h, file_id, lines) ==
    IF lines = <<>> THEN h
    ELSE LOG_ERR(log_event(h, file_id, Head(lines) % 65536), file_id, Tail(lines))

\* The records LOG_ERR hands over for these source lines
LogRecords(file_id, lines) ==
    [k \in 1..Len(lines) |-> [file_id |-> file_id, line |-> lines[k] % 65536]] \o <<>>

\* The logger's state after the LOG_ERRs at these lines of ce_dispatch.c
Logs(lines) ==
    /\ log_history' = LOG_ERR([history |-> log_history, idx |-> log_history_idx],
                              CE_FILE_DISPATCH_e, lines).history
    /\ log_history_idx' = LOG_ERR([history |-> log_history, idx |-> log_history_idx],
                                  CE_FILE_DISPATCH_e, lines).idx
    /\ log_calls' = log_calls \o LogRecords(CE_FILE_DISPATCH_e, lines)


\* A store past the end of scratch.buffer is undefined behaviour.  What happens
\* is settled when the program is built: the process is stopped at the store
\* (the debug build of unit_test/CMakeLists.txt compiles with
\* -fsanitize=address), or the bytes land behind the buffer and the call goes
\* on with the cursor it holds in a register, or it goes on with the cursor
\* read back from memory, where the bytes stored may have changed it.
Builds == {"stops", "keeps_cursor", "rereads_cursor"}

\* There is no second call
NoCall == [pc |-> "none"]

NoUnit == [op |-> "none", in_null |-> FALSE, in_line |-> <<>>, in_count |-> 0,
           in_sig |-> 0, ret |-> FALSE, buf |-> <<>>, tokens |-> <<>>, count |-> 0,
           width |-> 0, val |-> <<0>>, neg |-> FALSE, stopped |-> FALSE,
           wrapped |-> FALSE, over |-> FALSE, b |-> FALSE, out |-> <<>>,
           hash |-> <<0, 0>>, char_signed |-> FALSE, tbl |-> <<>>, ub |-> FALSE,
           prior |-> [val |-> <<0>>, neg |-> FALSE, b |-> FALSE, len |-> 0, fill |-> 0],
           out_buf |-> <<>>]

Inputs == {[null |-> TRUE, line |-> <<>>]} \cup {[null |-> FALSE, line |-> l] : l \in Lines}

\* A call of ce_dispatch_from_line is entered, or the test harness is about to
\* call an internal function directly
Init ==
    /\ table \in Tables
    /\ \/ /\ pc = "NullCheck"
          /\ \E in \in Inputs : line_null = in.null /\ line_str = in.line
       \/ /\ pc = "Unit"
          /\ line_null = FALSE
          /\ line_str = <<>>
    /\ line_buf = Zeros(MAX_LINE_BUF_SIZE)
    /\ tokens_apc = Zeros(MAX_TOKENS)
    /\ tokens_count = 0
    /\ hash_u32 = <<0, 0>>
    /\ sig_pst = 0
    /\ args_a = [i \in 1..MAX_TOKENS |-> ArgZero]
    /\ scratch = ScratchInit
    /\ arg_i = 0
    /\ result = "none"
    /\ steps = <<>>
    /\ invoked = 0
    /\ delivered = <<>>
    /\ handler_ret = FALSE
    /\ unit = NoUnit
    /\ log_history = LogInit.history
    /\ log_history_idx = LogInit.idx
    /\ log_calls = <<>>
    /\ other = NoCall
    /\ build \in Builds

\* return false, after the LOG_ERRs at these source lines
Failed(step, lines) ==
    /\ pc' = "Done"
    /\ result' = "false"
    /\ steps' = Append(steps, step)
    /\ Logs(lines)
    /\ UNCHANGED other

\* the check passed
Passed(step, next) ==
    /\ pc' = next
    /\ result' = result
    /\ steps' = Append(steps, step)
    /\ UNCHANGED <<log_history, log_history_idx, log_calls, other>>

\* ce_dispatch_from_line without its null check: strlen(NULL) stops the process
NullCheck_NoGuard ==
    /\ pc = "NullCheck"
    /\ IF line_null
       THEN /\ pc' = "Crashed" /\ steps' = Append(steps, "null_check")
            /\ UNCHANGED <<result, log_history, log_history_idx, log_calls, other>>
       ELSE Passed("null_check", "LengthCheck")
    /\ UNCHANGED <<build, table, line_null, line_str, line_buf, tokens_apc, tokens_count,
                   hash_u32, sig_pst, args_a, scratch, arg_i, invoked, delivered,
                   handler_ret, unit>>

NullCheck ==
    /\ pc = "NullCheck"
    /\ IF line_null THEN Failed("null_check", <<334>>) ELSE Passed("null_check", "LengthCheck")
    /\ UNCHANGED <<build, table, line_null, line_str, line_buf, tokens_apc, tokens_count,
                   hash_u32, sig_pst, args_a, scratch, arg_i, invoked, delivered,
                   handler_ret, unit>>

\* The length check with > in place of >=
LineTooLong_OffByOne(line) == Len(line) > MAX_LINE_BUF_SIZE

\* strlen(line_str) >= sizeof(line_buf)
LineTooLong(line) == Len(line) >= MAX_LINE_BUF_SIZE

\* The copy one character short of the buffer's capacity
CopyLine_DropsLast(line) ==
    [i \in 1..MAX_LINE_BUF_SIZE |->
        IF i <= Len(line) /\ i <= MAX_LINE_BUF_SIZE - 2 THEN line[i] ELSE 0] \o <<>>

\* strncpy(line_buf, line_str, sizeof(line_buf) - 1); line_buf[sizeof - 1] = 0
CopyLine(line) ==
    [i \in 1..MAX_LINE_BUF_SIZE |->
        IF i <= Len(line) /\ i <= MAX_LINE_BUF_SIZE - 1 THEN line[i] ELSE 0] \o <<>>

LengthCheck ==
    /\ pc = "LengthCheck"
    /\ IF LineTooLong(line_str)
       THEN Failed("length_check", <<340>>) /\ UNCHANGED line_buf
       ELSE Passed("length_check", "Tokenize") /\ line_buf' = CopyLine(line_str)
    /\ UNCHANGED <<build, table, line_null, line_str, tokens_apc, tokens_count,
                   hash_u32, sig_pst, args_a, scratch, arg_i, invoked, delivered,
                   handler_ret, unit>>

\* The tokenizer run on the caller's line as well as on the copy
Tokenize_InPlace ==
    /\ pc = "Tokenize"
    /\ LET r == parse_line_to_tokens(line_buf, tokens_apc, tokens_count)
       IN  /\ line_buf' = r.buf
           /\ line_str' = SubSeq(r.buf, 1, Len(line_str))
           /\ tokens_apc' = r.tokens
           /\ tokens_count' = r.count
           /\ IF r.ok THEN Passed("tokenize", "NoCommandCheck") ELSE Failed("tokenize", <<277>>)
    /\ UNCHANGED <<build, table, line_null, hash_u32, sig_pst, args_a, scratch,
                   arg_i, invoked, delivered, handler_ret, unit>>

Tokenize ==
    /\ pc = "Tokenize"
    /\ LET r == parse_line_to_tokens(line_buf, tokens_apc, tokens_count)
       IN  /\ line_buf' = r.buf
           /\ tokens_apc' = r.tokens
           /\ tokens_count' = r.count
           /\ IF r.ok THEN Passed("tokenize", "NoCommandCheck") ELSE Failed("tokenize", <<277>>)
    /\ UNCHANGED <<build, table, line_null, line_str, hash_u32, sig_pst, args_a, scratch,
                   arg_i, invoked, delivered, handler_ret, unit>>

NoCommand(count, tokens) == count = 0 \/ tokens[1] = 0

NoCommandCheck ==
    /\ pc = "NoCommandCheck"
    /\ IF NoCommand(tokens_count, tokens_apc)
       THEN Failed("no_command_check", <<354>>)
       ELSE Passed("no_command_check", "Lookup")
    /\ UNCHANGED <<build, table, line_null, line_str, line_buf, tokens_apc, tokens_count,
                   hash_u32, sig_pst, args_a, scratch, arg_i, invoked, delivered,
                   handler_ret, unit>>

\* The lookup that also compares the name of the entry with the token
Lookup_ComparesName ==
    /\ pc = "Lookup"
    /\ \E char_signed \in BOOLEAN :
         LET h == ce_hash_calculate(CStr(line_buf, tokens_apc[1]), char_signed)
             found == lookup_signature_by_hash(table, h)
             sg == IF found # 0 /\ Str(table[found].handler) = CStr(line_buf, tokens_apc[1])
                   THEN found ELSE 0
         IN  /\ hash_u32' = h
             /\ sig_pst' = sg
             /\ IF sg = 0 THEN Failed("lookup", <<363>>) ELSE Passed("lookup", "ArityCheck")
    /\ UNCHANGED <<build, table, line_null, line_str, line_buf, tokens_apc, tokens_count,
                   args_a, scratch, arg_i, invoked, delivered, handler_ret, unit>>

Lookup ==
    /\ pc = "Lookup"
    /\ \E char_signed \in BOOLEAN :
         LET h == ce_hash_calculate(CStr(line_buf, tokens_apc[1]), char_signed)
             sg == lookup_signature_by_hash(table, h)
         IN  /\ hash_u32' = h
             /\ sig_pst' = sg
             /\ IF sg = 0 THEN Failed("lookup", <<363>>) ELSE Passed("lookup", "ArityCheck")
    /\ UNCHANGED <<build, table, line_null, line_str, line_buf, tokens_apc, tokens_count,
                   args_a, scratch, arg_i, invoked, delivered, handler_ret, unit>>

ArityCheck ==
    /\ pc = "ArityCheck"
    /\ IF validate_argument_count(tokens_count, sig_pst = 0,
                                  IF sig_pst = 0 THEN 0 ELSE table[sig_pst].type_count_u8)
       THEN Passed("arity_check", "EnterDispatch")
       ELSE Failed("arity_check", <<53>>)
    /\ UNCHANGED <<build, table, line_null, line_str, line_buf, tokens_apc, tokens_count,
                   hash_u32, sig_pst, args_a, scratch, arg_i, invoked, delivered,
                   handler_ret, unit>>

\* parse_arguments refuses a signature with more arguments than tokens can carry
TooManyArguments(type_count_u8) == type_count_u8 > MAX_PARSABLE_ARGUMENTS

\* dispatch_command up to the first iteration of the loop of parse_arguments
\* dispatch_command without the initialisers of args_a and scratch: the frame
\* holds what the call before left there
EnterDispatch_NoInitialisers ==
    /\ pc = "EnterDispatch"
    /\ arg_i' = 0
    /\ IF TooManyArguments(table[sig_pst].type_count_u8)
       THEN Failed("enter_dispatch", <<166, 308>>)
       ELSE Passed("enter_dispatch",
                   IF 0 < table[sig_pst].type_count_u8 THEN "ParseArg" ELSE "Invoke")
    /\ UNCHANGED <<build, table, line_null, line_str, line_buf, tokens_apc, tokens_count,
                   hash_u32, sig_pst, args_a, scratch, invoked, delivered,
                   handler_ret, unit>>

EnterDispatch ==
    /\ pc = "EnterDispatch"
    /\ args_a' = [i \in 1..MAX_TOKENS |-> ArgZero]
    /\ scratch' = ScratchInit
    /\ arg_i' = 0
    /\ IF TooManyArguments(table[sig_pst].type_count_u8)
       THEN Failed("enter_dispatch", <<166, 308>>)
       ELSE Passed("enter_dispatch",
                   IF 0 < table[sig_pst].type_count_u8 THEN "ParseArg" ELSE "Invoke")
    /\ UNCHANGED <<build, table, line_null, line_str, line_buf, tokens_apc, tokens_count,
                   hash_u32, sig_pst, invoked, delivered, handler_ret, unit>>


\* The signature, token pointer, token and type of the iteration at hand
CurSig == table[sig_pst]
CurPtr == tokens_apc[arg_i + ARG_OFFSET + 1]
CurToken == CStr(line_buf, CurPtr)
CurType == CurSig.types_e[arg_i + 1]

AfterArg == IF arg_i + 1 < CurSig.type_count_u8 THEN "ParseArg" ELSE "Invoke"

\* The LOG_ERRs on the way back from a failed parse_value_by_type: the one of
\* parse_value_by_type itself (the scalar parsers have none), the one of
\* parse_arguments and the one of dispatch_command
ParseFailureLines(type_e) ==
    IF type_e = TYPE_UINT8_PTR_e THEN <<116, 183, 308>>
    ELSE IF type_e \in TYPE_UINT8_e..TYPE_STRING_e THEN <<183, 308>>
    ELSE <<126, 183, 308>>

\* One iteration of the loop of parse_arguments, for every type but the binary one
ParseScalarArg ==
    /\ pc = "ParseArg"
    /\ CurType # TYPE_UINT8_PTR_e
    /\ IF CurPtr = 0
       THEN Failed("parse_arg", <<177, 308>>) /\ UNCHANGED <<args_a, arg_i>>
       ELSE LET r == parse_value_by_type(CurType, CurToken, CurPtr, args_a[arg_i + 1])
            IN  /\ args_a' = [args_a EXCEPT ![arg_i + 1] = r.arg]
                /\ IF r.ok
                   THEN Passed("parse_arg", AfterArg) /\ arg_i' = arg_i + 1
                   ELSE Failed("parse_arg", ParseFailureLines(CurType)) /\ UNCHANGED arg_i
    /\ UNCHANGED <<build, table, line_null, line_str, line_buf, tokens_apc, tokens_count,
                   hash_u32, sig_pst, scratch, invoked, delivered, handler_ret, unit>>

\* parse_hex_string(token_cp, scratch->buffer + scratch->used, MAX_ARG_CONTENT_SIZE, ..)
DecodeHex(token) == parse_hex_string(token, MAX_ARG_CONTENT_SIZE)

\* The decoded bytes all land inside scratch.buffer
InBuffer(used, bytes) == used + Len(bytes) <= MAX_ARG_CONTENT_SIZE

\* TYPE_UINT8_PTR_e after parse_hex_string has stored r.out at offset used_w, when
\* the cursor then reads used_r
BinaryArgDone(r, used_w, used_r) ==
    /\ scratch' = [mem |-> StoreBytes(scratch.mem, used_w, r.out),
                   used |-> IF r.ok THEN used_r + r.len ELSE used_r]
    /\ IF r.ok
       THEN /\ args_a' = [args_a EXCEPT ![arg_i + 1].ptr = used_r]
            /\ arg_i' = arg_i + 1
            /\ Passed("parse_arg", AfterArg)
       ELSE /\ UNCHANGED <<args_a, arg_i>>
            /\ Failed("parse_arg", ParseFailureLines(CurType))

ParseBinaryArg ==
    /\ pc = "ParseArg"
    /\ CurType = TYPE_UINT8_PTR_e
    /\ CurPtr # 0
    /\ InBuffer(scratch.used, DecodeHex(CurToken).out)
    /\ BinaryArgDone(DecodeHex(CurToken), scratch.used, scratch.used)
    /\ UNCHANGED <<build, table, line_null, line_str, line_buf, tokens_apc, tokens_count,
                   hash_u32, sig_pst, invoked, delivered, handler_ret, unit>>

\* What scratch.used reads once bytes stored at offset used have run over it:
\* size_t used follows buffer[MAX_ARG_CONTENT_SIZE] in scratch_buffer_st, so
\* the byte stored at offset MAX_ARG_CONTENT_SIZE is the low byte of used on a
\* little-endian build.  The case kept is the one where exactly that byte is
\* stored; when more bytes of used are overwritten the cursor points far
\* outside the frame, which the stop of the process stands for.
ClobberedUsed(used, bytes) ==
    IF used <= MAX_ARG_CONTENT_SIZE /\ used + Len(bytes) = MAX_ARG_CONTENT_SIZE + 1
    THEN {bytes[Len(bytes)]}
    ELSE {}

\* parse_hex_string stores past the end of scratch.buffer.  The behaviour is
\* undefined; the build settles whether the process is stopped at the store,
\* the call goes on with the cursor it held, or the call goes on with the
\* cursor read back from the bytes stored over scratch.used, the member that
\* follows the buffer (and is stopped when that cursor is far outside).
ParseBinaryArgOverflow ==
    /\ pc = "ParseArg"
    /\ CurType = TYPE_UINT8_PTR_e
    /\ CurPtr # 0
    /\ ~InBuffer(scratch.used, DecodeHex(CurToken).out)
    /\ \/ /\ \/ build = "stops"
             \/ /\ build = "rereads_cursor"
                /\ ClobberedUsed(scratch.used, DecodeHex(CurToken).out) = {}
          /\ pc' = "Crashed"
          /\ steps' = Append(steps, "parse_arg")
          /\ scratch' = [scratch EXCEPT
                            !.mem = StoreBytes(scratch.mem, scratch.used,
                                               DecodeHex(CurToken).out)]
          /\ UNCHANGED <<args_a, arg_i, result, log_history, log_history_idx,
                         log_calls, other>>
       \/ /\ build = "keeps_cursor"
          /\ BinaryArgDone(DecodeHex(CurToken), scratch.used, scratch.used)
       \/ /\ build = "rereads_cursor"
          /\ \E u \in ClobberedUsed(scratch.used, DecodeHex(CurToken).out) :
                BinaryArgDone(DecodeHex(CurToken), scratch.used, u)
    /\ UNCHANGED <<build, table, line_null, line_str, line_buf, tokens_apc, tokens_count,
                   hash_u32, sig_pst, invoked, delivered, handler_ret, unit>>

\* What the handler reads through argument j: the scalar, the string at the
\* pointer, or as many bytes at the pointer as the token encodes
Deliver(j) ==
    LET t == CurSig.types_e[j]
        a == args_a[j]
    IN  [type |-> t, val |-> a.val, neg |-> a.neg, b |-> a.b,
         bytes |-> CASE t = TYPE_STRING_e -> CStr(line_buf, a.ptr)
                     [] t = TYPE_UINT8_PTR_e ->
                            SubSeq(scratch.mem, a.ptr + 1,
                                   a.ptr + (Len(CStr(line_buf, tokens_apc[j + ARG_OFFSET])) \div 2))
                     [] OTHER -> <<>>]

\* ce_invoke_handler(sig_pst, args_a): its return value is the result
Invoke ==
    /\ pc = "Invoke"
    /\ \E ret \in BOOLEAN :
          /\ handler_ret' = ret
          /\ result' = IF ret THEN "true" ELSE "false"
    /\ invoked' = invoked + 1
    /\ delivered' = [j \in 1..CurSig.type_count_u8 |-> Deliver(j)]
    /\ pc' = "Done"
    /\ steps' = Append(steps, "invoke")
    /\ UNCHANGED <<build, table, line_null, line_str, line_buf, tokens_apc, tokens_count,
                   hash_u32, sig_pst, args_a, scratch, arg_i, unit,
                   log_history, log_history_idx, log_calls, other>>

\* A direct call through the test API: only unit changes, and the logger by
\* the LOG_ERRs at these source lines
UnitCall(u, lines) ==
    /\ pc = "Unit"
    /\ unit' = u
    /\ pc' = "UnitDone"
    /\ Logs(lines)
    /\ UNCHANGED other
    /\ UNCHANGED <<build, table, line_null, line_str, line_buf, tokens_apc, tokens_count,
                   hash_u32, sig_pst, args_a, scratch, arg_i, result, steps, invoked,
                   delivered, handler_ret>>

\* _test_validate_argument_count(tokens_count, sig_pst), sig 0 being NULL
TestValidateArgumentCount ==
    \E c \in 0..(MaxArgs + 1), sg \in 0..Len(table) :
        UnitCall([NoUnit EXCEPT
                    !.op = "validate_argument_count", !.in_count = c, !.in_sig = sg,
                    !.ret = validate_argument_count(
                                c, sg = 0, IF sg = 0 THEN 0 ELSE table[sg].type_count_u8)],
                 IF sg = 0 THEN <<45>>
                 ELSE IF validate_argument_count(c, FALSE, table[sg].type_count_u8)
                      THEN <<>> ELSE <<53>>)

\* _test_parse_line_to_tokens(line, tokens, &token_count) on a zeroed tokens
\* array, token_count holding c0 before the call
TestParseLineToTokens ==
    \E l \in TokenizerLines, c0 \in {0, 3} :
        LET r == parse_line_to_tokens(l \o <<0>>, Zeros(MAX_TOKENS), c0)
        IN  UnitCall([NoUnit EXCEPT
                        !.op = "parse_line_to_tokens", !.in_line = l, !.in_count = c0,
                        !.ret = r.ok, !.buf = r.buf, !.tokens = r.tokens,
                        !.count = r.count],
                     IF r.ok THEN <<>> ELSE <<277>>)

Widths == {8, 16, 32, 64}

\* What the caller's *out, *out_b, *out_len and out_buf hold before a parser is
\* called: zeros, or values no parser result of the inputs coincides with
Priors ==
    {[val |-> <<0>>, neg |-> FALSE, b |-> FALSE, len |-> 0, fill |-> 0],
     [val |-> <<9, 9>>, neg |-> TRUE, b |-> TRUE, len |-> 77, fill |-> 238]}

\* A parser that stores through its out pointer whether or not it succeeds
StoreOut_Always(ok, prior, val) == val

\* *out after the call: the parsers assign through the out pointer in the
\* statement before return true, and nowhere else
StoreOut(ok, prior, val) == IF ok THEN val ELSE prior

\* out_buf after parse_hex_string: out_buf[i] is assigned for the pairs
\* converted, from index 0 on
HexBufAfter(prior_buf, out) ==
    out \o SubSeq(prior_buf, Len(out) + 1, Len(prior_buf))

UnsignedMax(w) ==
    CASE w = 8 -> UINT8_MAX [] w = 16 -> UINT16_MAX [] w = 32 -> UINT32_MAX
      [] w = 64 -> UINT64_MAX

SignedMax(w) ==
    CASE w = 8 -> INT8_MAX [] w = 16 -> INT16_MAX [] w = 32 -> INT32_MAX
      [] w = 64 -> INT64_MAX

\* render(v): the decimal digits of v as characters
Render(v) == [i \in 1..Len(v) |-> 48 + v[i]] \o <<>>

\* Strings given to the unsigned parsers: every width's largest value, its
\* successor, small values, leading zeros, and strings that are not all digits
UnsignedStrings ==
    {Render(UnsignedMax(w)) : w \in Widths}
    \cup {Render(NatAdd(UnsignedMax(w), <<1>>)) : w \in Widths}
    \cup {Str("00") \o Render(UnsignedMax(w)) : w \in Widths}
    \cup {Render(UnsignedMax(w)) \o Str("0") : w \in Widths}
    \cup {Str(""), Str("0"), Str("7"), Str("007"), Str("42"), Str("250"), Str("260"),
          Str("99999999999999999999"), Str("18446744073709551620"),
          Rep(Str("0"), 30) \o Str("1"), Rep(Str("9"), 40),
          Str("+1"), Str("-1"), Str("-0"), Str(" 1"), Str("1 "), Str("1x"), Str("x"),
          Str("12a3"), Str("25 5"), Str("+"), <<49, 47>>, <<49, 58>>, <<58>>, <<9, 49>>}

parse_unsigned(w, s) ==
    CASE w = 8 -> parse_u8(s) [] w = 16 -> parse_u16(s) [] w = 32 -> parse_u32(s)
      [] w = 64 -> parse_u64(s)

\* The unit tests call parse_u8 .. parse_u64 on a string
TestParseUnsigned ==
    \E w \in Widths, s \in UnsignedStrings, prior \in Priors :
        LET r == parse_unsigned(w, s)
        IN  UnitCall([NoUnit EXCEPT
                        !.op = "parse_unsigned", !.width = w, !.in_line = s,
                        !.prior = prior,
                        !.ret = r.ok, !.val = StoreOut(r.ok, prior.val, r.val),
                        !.wrapped = r.wrapped, !.over = r.over], <<>>)

Minus(v) == Str("-") \o Render(v)

\* Strings given to the signed parsers: every width's extremes and their
\* neighbours, signs in every position, and strings that are not all digits
SignedStrings ==
    {Render(SignedMax(w)) : w \in Widths}
    \cup {Str("+") \o Render(SignedMax(w)) : w \in Widths}
    \cup {Render(NatAdd(SignedMax(w), <<1>>)) : w \in Widths}
    \cup {Minus(SignedMax(w)) : w \in Widths}
    \cup {Minus(NatAdd(SignedMax(w), <<1>>)) : w \in Widths}
    \cup {Minus(NatAdd(SignedMax(w), <<2>>)) : w \in Widths}
    \cup {Str(""), Str("+"), Str("-"), Str("0"), Str("-0"), Str("+0"), Str("-1"),
          Str("+1"), Str("42"), Str("-007"), Str("+-1"), Str("-+1"), Str("--1"),
          Str("++1"), Str("1-"), Str("1+"), Str(" -1"), Str("-1 "), Str("- 1"),
          Str("-x"), Str("12a"), Str("-99999999999999999999"), Rep(Str("9"), 40),
          Str("-") \o Rep(Str("0"), 30) \o Str("5")}

parse_signed(w, s) ==
    CASE w = 8 -> parse_i8(s) [] w = 16 -> parse_i16(s) [] w = 32 -> parse_i32(s)
      [] w = 64 -> parse_i64(s)

\* What a call of parse_i8 .. parse_i64 can do.  For the most negative value of
\* int32_t or int64_t the result is computed as -(intN_t)value, a negation that
\* overflows the signed type: the call either goes on with the wrapped value or
\* the process stops at the negation.
SignedOutcomes(w, s, prior) ==
    LET r == parse_signed(w, s)
        returned == [NoUnit EXCEPT
                        !.op = "parse_signed", !.width = w, !.in_line = s,
                        !.prior = prior,
                        !.ret = r.ok, !.val = StoreOut(r.ok, prior.val, r.val),
                        !.neg = StoreOut(r.ok, prior.neg, r.neg), !.ub = r.ub,
                        !.wrapped = r.wrapped, !.over = r.over]
    IN  IF r.ub THEN {returned, [returned EXCEPT !.ret = FALSE, !.val = prior.val,
                                                 !.neg = prior.neg, !.stopped = TRUE]}
        ELSE {returned}

\* The unit tests call parse_i8 .. parse_i64 on a string
TestParseSigned ==
    \E w \in Widths, s \in SignedStrings, prior \in Priors :
        \E u \in SignedOutcomes(w, s, prior) : UnitCall(u, <<>>)

\* Strings given to ce_hash_calculate: the names of the unit test, strings with
\* bytes of 0x80 and more, and one long enough for the digest to pass 2^32
HashStrings ==
    {Str(""), Str("reset"), Str("Reset"), Str("set_speed"), Str("set_mac"), Str("a"),
     <<1>>, <<127>>, <<128>>, <<255>>, <<97, 200, 98>>, <<195, 169>>,
     Rep(Str("z"), 40), Rep(<<255>>, 12)}

\* The unit tests call ce_hash_calculate on a string or on NULL; the test build
\* has a signed or an unsigned char
TestHash ==
    \E null \in BOOLEAN, s \in HashStrings, char_signed \in BOOLEAN :
        /\ null => s = <<>>
        /\ UnitCall([NoUnit EXCEPT
                       !.op = "ce_hash_calculate", !.in_null = null, !.in_line = s,
                       !.char_signed = char_signed,
                       !.hash = IF null THEN <<0, 0>>
                                ELSE ce_hash_calculate(s, char_signed)], <<>>)

\* Strings given to parse_hex_string: both cases, odd lengths, characters next
\* to the hex digits in the character set, and 64 and 65 bytes' worth of digits
HexStrings ==
    {Str(""), Str("0"), Str("00"), Str("ff"), Str("FF"), Str("fF"), Str("0a1B"),
     Str("0A1b"), Str("abc"), Str("abcdef"), Str("ABCDEF"), Str("0123456789"),
     Str("0g"), Str("g0"), Str("G0"), Str("zz"), Str("0x12"), Str(" 12"), Str("12 "),
     Str("+1"), Str("-1"), Str("12g4"), Str("1234g"), Str("0102zz04"),
     <<47, 48>>, <<58, 48>>, <<48, 64>>, <<48, 71>>, <<96, 48>>, <<48, 103>>,
     Rep(Str("a1"), MAX_ARG_CONTENT_SIZE), Rep(Str("A1"), MAX_ARG_CONTENT_SIZE),
     Rep(Str("a1"), MAX_ARG_CONTENT_SIZE + 1),
     Rep(Str("a1"), MAX_ARG_CONTENT_SIZE) \o Str("a")}

\* The unit tests call parse_hex_string(s, out_buf, max_len, &out_len) on a
\* buffer of max_len bytes and two more
TestParseHexString ==
    \E s \in HexStrings, max_len \in {0, 1, 2, 3, 5, MAX_ARG_CONTENT_SIZE},
       prior \in Priors :
        LET r == parse_hex_string(s, max_len)
        IN  UnitCall([NoUnit EXCEPT
                        !.op = "parse_hex_string", !.in_line = s, !.in_count = max_len,
                        !.prior = prior,
                        !.ret = r.ok, !.out = r.out,
                        !.out_buf = HexBufAfter(Rep(<<prior.fill>>, max_len + 2), r.out),
                        !.count = StoreOut(r.ok, prior.len, r.len)], <<>>)

\* Strings given to parse_boolean_token: the literals in several letter cases,
\* their prefixes and extensions, and other words
BooleanStrings ==
    {Str("true"), Str("false"), Str("1"), Str("0"), Str("TRUE"), Str("False"),
     Str("TrUe"), Str("FaLsE"), Str("FALSE"), Str("truE"), Str(""), Str("tru"),
     Str("truex"), Str("TRUEX"), Str("fals"), Str("falsee"), Str("01"), Str("10"),
     Str("00"), Str("11"), Str("2"), Str("yes"), Str("no"), Str("t"), Str("f"),
     Str("true "), Str(" true"), Str("1 "), Str("+1"), Str("-0"), Str("truefalse"),
     Str("true1"), Str("on"), <<116, 114, 117, 101 + 128>>, <<123, 114, 117, 101>>}

\* The unit tests call parse_boolean_token(token, &out)
TestParseBoolean ==
    \E t \in BooleanStrings, prior \in Priors :
        LET r == parse_boolean_token(t)
        IN  UnitCall([NoUnit EXCEPT
                        !.op = "parse_boolean_token", !.in_line = t,
                        !.prior = prior,
                        !.ret = r.ok, !.b = StoreOut(r.ok, prior.b, r.b)], <<>>)

\* Hashes of the lookup tables: the ends of the 32-bit range, values that differ
\* in one half only, and the 0xDEADBEEF of the tests
LookupHashes == {<<0, 0>>, <<0, 1>>, <<1, 0>>, <<65535, 65535>>, <<57005, 48879>>}

\* Tables of up to MaxTable entries in any order, duplicate hashes included
LookupTables ==
    UNION {[1..n -> {[hash_u32 |-> h] : h \in LookupHashes \ {<<57005, 48879>>}}]
              : n \in 0..MaxTable}

\* _test_lookup_signature_by_hash(hash) over the table that
\* ce_table_get_signatures() returns; 0 stands for NULL
TestLookup ==
    \E t \in LookupTables, h \in LookupHashes :
        UnitCall([NoUnit EXCEPT
                    !.op = "lookup_signature_by_hash", !.tbl = t \o <<>>, !.hash = h,
                    !.count = lookup_signature_by_hash(t, h)], <<>>)

Next ==
    \/ NullCheck
    \/ LengthCheck
    \/ Tokenize
    \/ NoCommandCheck
    \/ Lookup
    \/ ArityCheck
    \/ EnterDispatch
    \/ ParseScalarArg
    \/ ParseBinaryArg
    \/ ParseBinaryArgOverflow
    \/ Invoke
    \/ TestValidateArgumentCount
    \/ TestParseLineToTokens
    \/ TestParseUnsigned
    \/ TestParseSigned
    \/ TestHash
    \/ TestParseHexString
    \/ TestParseBoolean
    \/ TestLookup

Spec == Init /\ [][Next]_vars

----------------------------------------------------------------------------
\* Dispatches one after the other

\* Lines dispatched in sequence: failures at every step, successes with scalar,
\* string and binary arguments, and binary arguments that pass the end of the
\* scratch buffer by one byte and by more
HistoryLines ==
    {<<>>, Str("void"), Str("nonexistent_command"), Str("cat_byte"),
     Str("cat_bytes 010203 22"), Str("cat_bytes 0g 22"), Str("flag true"),
     Join(<<Str("void")>> \o [j \in 1..MaxArgs |-> Str("1")], Space),
     Rep(Str("a"), MAX_LINE_BUF_SIZE)}
    \cup {Join(<<Str("cat_mixed"), Rep(Str("A1"), a), second, Str("foo"),
                 Str("bar"), Rep(Str("C3"), 1), Str("-5"), Str("7")>>, Space) :
             a \in {32, 64}, second \in {Str("00"), Rep(Str("b2"), 33)}}

HistoryInputs ==
    {[null |-> TRUE, line |-> <<>>]}
    \cup {[null |-> FALSE, line |-> l] : l \in HistoryLines}

InitHistory ==
    /\ Init
    /\ pc = "NullCheck"
    /\ [null |-> line_null, line |-> line_str] \in HistoryInputs

\* ce_dispatch_from_line has returned and the caller calls it again: the new
\* call's line_buf, tokens_apc and tokens_count are initialised at entry, while
\* hash_u32 and sig_pst have no initialiser and the frame of dispatch_command
\* (args_a, scratch, the loop index) is not entered yet, so these hold what the
\* call before left.  The harness (unit) counts the calls and notes the cursor
\* that the call before left in the frame.
Call ==
    /\ pc = "Done"
    /\ unit.count < MaxCalls
    /\ \E next \in HistoryInputs :
          /\ line_null' = next.null
          /\ line_str' = next.line
    /\ line_buf' = Zeros(MAX_LINE_BUF_SIZE)
    /\ tokens_apc' = Zeros(MAX_TOKENS)
    /\ tokens_count' = 0
    /\ pc' = "NullCheck"
    /\ result' = "none"
    /\ steps' = <<>>
    /\ invoked' = 0
    /\ delivered' = <<>>
    /\ handler_ret' = FALSE
    /\ unit' = [NoUnit EXCEPT !.op = "ce_dispatch_from_line",
                              !.count = unit.count + 1,
                              !.in_count = scratch.used]
    /\ UNCHANGED <<build, table, hash_u32, sig_pst, args_a, scratch, arg_i,
                   log_history, log_history_idx, log_calls, other>>

NextHistory ==
    \/ NullCheck
    \/ LengthCheck
    \/ Tokenize
    \/ NoCommandCheck
    \/ Lookup
    \/ ArityCheck
    \/ EnterDispatch
    \/ ParseScalarArg
    \/ ParseBinaryArg
    \/ ParseBinaryArgOverflow
    \/ Invoke
    \/ Call

SpecHistory == InitHistory /\ [][NextHistory]_vars

(***************************************************************************)
(* One call of ce_dispatch_from_line, run to its end                       *)
(***************************************************************************)
InitLive == Init /\ pc = "NullCheck"

NextLive ==
    \/ NullCheck
    \/ LengthCheck
    \/ Tokenize
    \/ NoCommandCheck
    \/ Lookup
    \/ ArityCheck
    \/ EnterDispatch
    \/ ParseScalarArg
    \/ ParseBinaryArg
    \/ ParseBinaryArgOverflow
    \/ Invoke

\* The call is at a position before its return
Running ==
    pc \in {"NullCheck", "LengthCheck", "Tokenize", "NoCommandCheck", "Lookup",
            "ArityCheck", "EnterDispatch", "ParseArg", "Invoke"}

\* The call takes a step: every action of NextLive records the step it takes
\* in steps, and at every position before the return one of them can be taken
TakeStep ==
    /\ Running
    /\ \E step \in {"null_check", "length_check", "tokenize", "no_command_check",
                     "lookup", "arity_check", "enter_dispatch", "parse_arg", "invoke"} :
          steps' = Append(steps, step)

\* The call runs on without suspension (no suspension points, no concurrency):
\* while it is at a position before its return, it goes on taking steps
SpecLive == InitLive /\ [][NextLive]_vars /\ WF_steps(TakeStep)

(***************************************************************************)
(* Two calls of ce_dispatch_from_line whose steps are interleaved          *)
(***************************************************************************)
\* Lines of the two calls: the same tokens between different separators, names
\* with the digest of a registered name (djb2 of "vojC" is that of "void", of
\* "cat_byuD" that of "cat_byte"), binary arguments with different bytes, a
\* rejected argument, an unknown command, and binary arguments that overrun
\* the scratch buffer
TwoLines ==
    {Str("void"),
     <<32, 32>> \o Str("void") \o <<13, 10>>,
     Str("vojC"),
     Str("cat_byte 22"),
     Str("cat_byuD") \o <<9>> \o Str("22") \o <<10>>,
     Str("cat_bytes 010203 3"),
     Str("cat_bytes") \o <<32, 32>> \o Str("010203") \o <<32, 9, 32>> \o Str("3") \o <<32>>,
     Str("cat_bytes AABBCC 3"),
     Str("cat_bytes 0g 22"),
     Str("nonexistent_command"),
     Join(<<Str("cat_mixed"), Rep(Str("A1"), MAX_ARG_CONTENT_SIZE), Str("00"),
            Str("foo"), Str("bar"), Str("C3"), Str("-5"), Str("7")>>, Space)}

\* The locals of the call that is running: the automatic variables of
\* ce_dispatch_from_line and dispatch_command, and what the call has done
Context ==
    [pc |-> pc, line_null |-> line_null, line_str |-> line_str, line_buf |-> line_buf,
     tokens_apc |-> tokens_apc, tokens_count |-> tokens_count, hash_u32 |-> hash_u32,
     sig_pst |-> sig_pst, args_a |-> args_a, scratch |-> scratch, arg_i |-> arg_i,
     result |-> result, steps |-> steps, invoked |-> invoked, delivered |-> delivered,
     handler_ret |-> handler_ret]

\* The locals of a call of ce_dispatch_from_line(line) that has not taken a step
EnteredCall(line) ==
    [pc |-> "NullCheck", line_null |-> FALSE, line_str |-> line,
     line_buf |-> Zeros(MAX_LINE_BUF_SIZE), tokens_apc |-> Zeros(MAX_TOKENS),
     tokens_count |-> 0, hash_u32 |-> <<0, 0>>, sig_pst |-> 0,
     args_a |-> [i \in 1..MAX_TOKENS |-> ArgZero] \o <<>>, scratch |-> ScratchInit,
     arg_i |-> 0, result |-> "none", steps |-> <<>>, invoked |-> 0,
     delivered |-> <<>>, handler_ret |-> FALSE]

\* Both calls have been entered; one of them is about to take its first step
InitTwo ==
    /\ table = DemoTable
    /\ build \in Builds
    /\ \E first \in TwoLines :
          /\ pc = EnteredCall(first).pc
          /\ line_null = EnteredCall(first).line_null
          /\ line_str = EnteredCall(first).line_str
          /\ line_buf = EnteredCall(first).line_buf
          /\ tokens_apc = EnteredCall(first).tokens_apc
          /\ tokens_count = EnteredCall(first).tokens_count
          /\ hash_u32 = EnteredCall(first).hash_u32
          /\ sig_pst = EnteredCall(first).sig_pst
          /\ args_a = EnteredCall(first).args_a
          /\ scratch = EnteredCall(first).scratch
          /\ arg_i = EnteredCall(first).arg_i
          /\ result = EnteredCall(first).result
          /\ steps = EnteredCall(first).steps
          /\ invoked = EnteredCall(first).invoked
          /\ delivered = EnteredCall(first).delivered
          /\ handler_ret = EnteredCall(first).handler_ret
    /\ \E second \in TwoLines : other = EnteredCall(second)
    /\ unit = NoUnit
    /\ log_history = LogInit.history
    /\ log_history_idx = LogInit.idx
    /\ log_calls = <<>>

\* The two calls with one scratch buffer between them, as if scratch were a
\* static object: the call that goes on finds the scratch of the other
Switch_SharedScratch ==
    /\ pc \in {"NullCheck", "LengthCheck", "Tokenize", "NoCommandCheck", "Lookup",
               "ArityCheck", "EnterDispatch", "ParseArg", "Invoke", "Done"}
    /\ other.pc \in {"NullCheck", "LengthCheck", "Tokenize", "NoCommandCheck", "Lookup",
                     "ArityCheck", "EnterDispatch", "ParseArg", "Invoke"}
    /\ other' = Context
    /\ pc' = other.pc
    /\ line_null' = other.line_null
    /\ line_str' = other.line_str
    /\ line_buf' = other.line_buf
    /\ tokens_apc' = other.tokens_apc
    /\ tokens_count' = other.tokens_count
    /\ hash_u32' = other.hash_u32
    /\ sig_pst' = other.sig_pst
    /\ args_a' = other.args_a
    /\ scratch' = scratch
    /\ arg_i' = other.arg_i
    /\ result' = other.result
    /\ steps' = other.steps
    /\ invoked' = other.invoked
    /\ delivered' = other.delivered
    /\ handler_ret' = other.handler_ret
    /\ UNCHANGED <<build, table, unit, log_history, log_history_idx, log_calls>>

\* The running call stops between two steps and the other call, which has
\* not returned yet, goes on: each call finds its own automatic variables as
\* it left them; the table and the logger's static objects are the same for
\* both.  After a stop of the process no call goes on.
Switch ==
    /\ pc \in {"NullCheck", "LengthCheck", "Tokenize", "NoCommandCheck", "Lookup",
               "ArityCheck", "EnterDispatch", "ParseArg", "Invoke", "Done"}
    /\ other.pc \in {"NullCheck", "LengthCheck", "Tokenize", "NoCommandCheck", "Lookup",
                     "ArityCheck", "EnterDispatch", "ParseArg", "Invoke"}
    /\ other' = Context
    /\ pc' = other.pc
    /\ line_null' = other.line_null
    /\ line_str' = other.line_str
    /\ line_buf' = other.line_buf
    /\ tokens_apc' = other.tokens_apc
    /\ tokens_count' = other.tokens_count
    /\ hash_u32' = other.hash_u32
    /\ sig_pst' = other.sig_pst
    /\ args_a' = other.args_a
    /\ scratch' = other.scratch
    /\ arg_i' = other.arg_i
    /\ result' = other.result
    /\ steps' = other.steps
    /\ invoked' = other.invoked
    /\ delivered' = other.delivered
    /\ handler_ret' = other.handler_ret
    /\ UNCHANGED <<build, table, unit, log_history, log_history_idx, log_calls>>

NextTwo ==
    \/ NullCheck
    \/ LengthCheck
    \/ Tokenize
    \/ NoCommandCheck
    \/ Lookup
    \/ ArityCheck
    \/ EnterDispatch
    \/ ParseScalarArg
    \/ ParseBinaryArg
    \/ ParseBinaryArgOverflow
    \/ Invoke
    \/ Switch

SpecTwo == InitTwo /\ [][NextTwo]_vars

(***************************************************************************)
(* log_event called on its own, any number of times                        *)
(***************************************************************************)
\* The arguments of the calls: both file ids, and lines at both ends of uint16_t
LogArguments == {<<CE_FILE_DISPATCH_e, 334>>, <<CE_FILE_PARSER_UTILS_e, 1>>,
                 <<CE_FILE_PARSER_UTILS_e, 65535>>}

InitLogger == Init /\ pc = "Unit" /\ table = DemoTable /\ build = "stops"

\* log_event(file_id, line)
LogEvent ==
    /\ pc = "Unit"
    /\ Len(log_calls) < MaxLogCalls
    /\ \E a \in LogArguments :
          /\ log_history' = log_event([history |-> log_history, idx |-> log_history_idx],
                                      a[1], a[2]).history
          /\ log_history_idx' = log_event([history |-> log_history,
                                           idx |-> log_history_idx], a[1], a[2]).idx
          /\ log_calls' = Append(log_calls, [file_id |-> a[1], line |-> a[2]])
    /\ UNCHANGED <<build, table, pc, line_null, line_str, line_buf, tokens_apc, tokens_count,
                   hash_u32, sig_pst, args_a, scratch, arg_i, result, steps, invoked,
                   delivered, handler_ret, unit, other>>

NextLogger == LogEvent

SpecLogger == InitLogger /\ [][NextLogger]_vars


(***************************************************************************)
(* Reference definitions for the properties: what a line is made of, read  *)
(* off the line itself and not off the tokenizer's result                  *)
(***************************************************************************)
Separator(c) == c \in {32, 9, 13, 10}

Blank(line) == \A i \in 1..Len(line) : Separator(line[i])

\* Where the maximal runs of non-separator characters start
RunStarts(line) ==
    {i \in 1..Len(line) : ~Separator(line[i]) /\ (i = 1 \/ Separator(line[i - 1]))}

RunCount(line) == Cardinality(RunStarts(line))

\* The last position of the run that starts at s
RunEnd(line, s) ==
    CHOOSE e \in s..Len(line) :
        /\ \A k \in s..e : ~Separator(line[k])
        /\ e = Len(line) \/ Separator(line[e + 1])

\* The start of the n-th run from the left, n counted from 1
NthRun(line, n) ==
    CHOOSE s \in RunStarts(line) : Cardinality({t \in RunStarts(line) : t < s}) = n - 1

RunText(line, n) == SubSeq(line, NthRun(line, n), RunEnd(line, NthRun(line, n)))

\* The table entry a command name resolves to: the first one with its digest
Resolves(tbl, name) == \E k \in 1..Len(tbl) : tbl[k].hash_u32 = ce_hash_calculate(name, FALSE)

Entry(tbl, name) ==
    CHOOSE k \in 1..Len(tbl) :
        /\ tbl[k].hash_u32 = ce_hash_calculate(name, FALSE)
        /\ \A j \in 1..(k - 1) : tbl[j].hash_u32 # ce_hash_calculate(name, FALSE)

\* The parser of a type accepts the token
ArgParses(type_e, token) ==
    IF type_e = TYPE_UINT8_PTR_e THEN parse_hex_string(token, MAX_ARG_CONTENT_SIZE).ok
    ELSE parse_value_by_type(type_e, token, 1, ArgZero).ok

\* The first check of ce_dispatch_from_line that a line violates, "none" when
\* it violates none
FirstViolation(null, line, tbl) ==
    IF null THEN "null_check"
    ELSE IF Len(line) >= MAX_LINE_BUF_SIZE THEN "length_check"
    ELSE IF RunCount(line) > MAX_TOKENS THEN "tokenize"
    ELSE IF RunCount(line) = 0 THEN "no_command_check"
    ELSE IF ~Resolves(tbl, RunText(line, 1)) THEN "lookup"
    ELSE LET sig == tbl[Entry(tbl, RunText(line, 1))]
         IN  IF RunCount(line) - 1 # sig.type_count_u8 THEN "arity_check"
             ELSE IF \E i \in 1..sig.type_count_u8 :
                        ~ArgParses(sig.types_e[i], RunText(line, i + 1))
             THEN "parse_arg"
             ELSE "none"

AllValid == FirstViolation(line_null, line_str, table) = "none"

\* The dispatch has ended: it returned, or the process was stopped
Ended == pc \in {"Done", "Crashed"}


C2_ScratchStaysInBuffer ==
    /\ scratch.used <= MAX_ARG_CONTENT_SIZE
    /\ \A k \in (MAX_ARG_CONTENT_SIZE + 1)..Len(scratch.mem) : scratch.mem[k] = 0


(***************************************************************************)
(* C3                                                                      *)
(***************************************************************************)
StepOrder ==
    <<"null_check", "length_check", "tokenize", "no_command_check", "lookup",
      "arity_check", "enter_dispatch", "parse_arg", "invoke">>

Rank(step) == CHOOSE r \in 1..Len(StepOrder) : StepOrder[r] = step

\* How many arguments of the line parse before the first one that does not
ParsedBeforeFailure(line, tbl) ==
    LET sig == tbl[Entry(tbl, RunText(line, 1))]
    IN  Cardinality({i \in 1..sig.type_count_u8 :
                        \A j \in 1..i : ArgParses(sig.types_e[j], RunText(line, j + 1))})

\* C3: the steps run in the order null check, length check, tokenize,
\* no-command check, hash lookup, arity check, argument parsing, invocation,
\* none of them before the ones ahead of it; a line that violates several checks
\* fails at the earliest of them, and no step runs after the failing one.
C3_StepsInOrderEarliestFailureWins ==
    LET first == FirstViolation(line_null, line_str, table)
        n == Len(steps)
    IN  /\ \A i \in 1..n :
              /\ i = 1 => steps[i] = "null_check"
              /\ i > 1 =>
                    \/ Rank(steps[i]) = Rank(steps[i - 1]) + 1
                    \/ steps[i] = "parse_arg" /\ steps[i - 1] = "parse_arg"
                    \/ /\ steps[i] = "invoke" /\ steps[i - 1] = "enter_dispatch"
                       /\ table[sig_pst].type_count_u8 = 0
        /\ (first # "none" /\ pc # "Unit" /\ pc # "UnitDone") =>
              /\ \A i \in 1..n : Rank(steps[i]) <= Rank(first)
              /\ invoked = 0
              /\ pc = "Done" => steps[n] = first /\ result = "false"
              /\ first = "parse_arg" =>
                    Cardinality({i \in 1..n : steps[i] = "parse_arg"})
                        <= ParsedBeforeFailure(line_str, table) + 1
        /\ (first = "none" /\ pc = "Done") => steps[n] = "invoke"

\* A line that is too long and holds too many tokens has failed at the length check
C3_Witness ==
    /\ pc = "Done"
    /\ Len(line_str) >= MAX_LINE_BUF_SIZE
    /\ RunCount(line_str) > MAX_TOKENS
    /\ steps = <<"null_check", "length_check">>
    /\ result = "false"


(***************************************************************************)
(* C4                                                                      *)
(***************************************************************************)
\* The number a decimal token denotes, its sign aside
Magnitude(token) ==
    LET digits == IF token[1] \in {43, 45} THEN Tail(token) ELSE token
    IN  NatNorm([i \in 1..Len(digits) |-> digits[i] - 48] \o <<>>)

Lowered(token) ==
    [i \in 1..Len(token) |-> IF token[i] \in 65..90 THEN token[i] + 32 ELSE token[i]] \o <<>>

HexValue(c) == IF c \in 48..57 THEN c - 48 ELSE IF c \in 65..70 THEN c - 55 ELSE c - 87

HexBytes(token) ==
    [i \in 1..(Len(token) \div 2) |->
        (16 * HexValue(token[(2 * i) - 1])) + HexValue(token[2 * i])] \o <<>>

\* What the handler was given is the value of the token under the type
Received(d, type_e, token) ==
    CASE type_e \in TYPE_UINT8_e..TYPE_INT64_e ->
            /\ d.val = Magnitude(token)
            /\ d.neg = (token[1] = 45 /\ Magnitude(token) # <<0>>)
      [] type_e = TYPE_BOOL_e -> d.b = (Lowered(token) = Str("true") \/ token = Str("1"))
      [] type_e = TYPE_STRING_e -> d.bytes = token
      [] type_e = TYPE_UINT8_PTR_e -> d.bytes = HexBytes(token)
      [] OTHER -> FALSE

\* C4: on every successful dispatch the handler receives, for each declared
\* type in order, the value of the corresponding token: the number or boolean
\* it denotes, the token text itself for a string, the bytes of its hex pairs
\* for a binary argument.
C4_HandlerReceivesParsedTokens ==
    (pc = "Done" /\ result = "true") =>
        LET sig == table[Entry(table, RunText(line_str, 1))]
        IN  /\ Len(delivered) = sig.type_count_u8
            /\ \A j \in 1..Len(delivered) :
                  /\ delivered[j].type = sig.types_e[j]
                  /\ Received(delivered[j], sig.types_e[j], RunText(line_str, j + 1))


(***************************************************************************)
(* C5                                                                      *)
(***************************************************************************)
\* The tokens found in buf are the maximal runs of the line, each whole and
\* NUL-terminated
TokensAreRuns(line, buf, tokens, count) ==
    /\ count = RunCount(line)
    /\ \A n \in 1..count :
          LET s == NthRun(line, n)
              e == RunEnd(line, s)
          IN  /\ tokens[n] = s
              /\ e >= s
              /\ \A k \in s..e : buf[k] = line[k]
              /\ buf[e + 1] = 0

\* C5: whenever parse_line_to_tokens succeeds, count <= MAX_TOKENS and
\* tokens[0..count-1] are exactly the maximal runs of characters other than
\* space, tab, carriage return and newline, from left to right, each non-empty,
\* whole (the MAX_TOKENS-th too) and NUL-terminated in the buffer.
C5_TokensAreMaximalRuns ==
    /\ (pc = "UnitDone" /\ unit.op = "parse_line_to_tokens" /\ unit.ret) =>
          /\ unit.count <= MAX_TOKENS
          /\ TokensAreRuns(unit.in_line, unit.buf, unit.tokens, unit.count)
    /\ pc \in {"NoCommandCheck", "Lookup"} =>
          /\ tokens_count <= MAX_TOKENS
          /\ TokensAreRuns(line_str, line_buf, tokens_apc, tokens_count)

\* MAX_TOKENS tokens of several characters, separated by runs of separators
\* and followed by trailing whitespace, were tokenized
C5_Witness ==
    /\ pc = "UnitDone"
    /\ unit.op = "parse_line_to_tokens"
    /\ unit.ret
    /\ unit.count = MAX_TOKENS
    /\ RunText(unit.in_line, MAX_TOKENS) = Str("ab1")
    /\ \E i \in 1..(Len(unit.in_line) - 2) :
          /\ unit.in_line[i] = 32 /\ unit.in_line[i + 1] = 9 /\ unit.in_line[i + 2] = 32
    /\ Separator(unit.in_line[Len(unit.in_line)])


(***************************************************************************)
(* C6                                                                      *)
(***************************************************************************)
\* C6: parse_line_to_tokens returns false if and only if the line holds more
\* than MAX_TOKENS tokens; exactly MAX_TOKENS tokens, whatever whitespace
\* follows them, succeed with count = MAX_TOKENS; on failure *tokens_count
\* keeps the value it had before the call.
C6_FalseIffTooManyTokens ==
    /\ (pc = "UnitDone" /\ unit.op = "parse_line_to_tokens") =>
          /\ ~unit.ret <=> RunCount(unit.in_line) > MAX_TOKENS
          /\ RunCount(unit.in_line) = MAX_TOKENS => unit.ret /\ unit.count = MAX_TOKENS
          /\ ~unit.ret => unit.count = unit.in_count
    /\ (pc = "Done" /\ steps[Len(steps)] = "tokenize") =>
          /\ RunCount(line_str) > MAX_TOKENS
          /\ tokens_count = 0
    /\ pc = "NoCommandCheck" => RunCount(line_str) <= MAX_TOKENS

\* A line of MAX_TOKENS + 1 tokens was refused and the count, 3 before the
\* call, is still 3
C6_Witness ==
    /\ pc = "UnitDone"
    /\ unit.op = "parse_line_to_tokens"
    /\ ~unit.ret
    /\ RunCount(unit.in_line) = MAX_TOKENS + 1
    /\ unit.in_count = 3
    /\ unit.count = 3


(***************************************************************************)
(* C7                                                                      *)
(***************************************************************************)
\* C7: for every input that is null, empty or made only of space, tab, CR and
\* LF, ce_dispatch_from_line returns false and no handler is invoked.
C7_BlankInputFails ==
    (pc \notin {"Unit", "UnitDone"} /\ (line_null \/ Blank(line_str))) =>
        /\ invoked = 0
        /\ result # "true"
        /\ pc # "Crashed"
        /\ pc = "Done" => result = "false"

\* A line of a tab, a space and a newline was refused
C7_Witness ==
    /\ pc = "Done"
    /\ ~line_null
    /\ line_str = <<9, 32, 10>>
    /\ result = "false"
    /\ invoked = 0


(***************************************************************************)
(* C8                                                                      *)
(***************************************************************************)
\* The first token of the line has a digest that no table entry holds
UnknownCommand ==
    /\ pc \notin {"Unit", "UnitDone"}
    /\ ~line_null
    /\ RunCount(line_str) > 0
    /\ ~Resolves(table, RunText(line_str, 1))

\* C8: for every line whose first token has a digest equal to no hash of the
\* table, ce_dispatch_from_line returns false, invokes no handler and neither
\* counts nor parses the argument tokens, whatever they are.
C8_UnknownCommandFails ==
    UnknownCommand =>
        /\ invoked = 0
        /\ result # "true"
        /\ pc # "Crashed"
        /\ pc = "Done" => result = "false"
        /\ \A i \in 1..Len(steps) : Rank(steps[i]) <= Rank("lookup")
        /\ args_a = [i \in 1..MAX_TOKENS |-> ArgZero]
        /\ scratch = ScratchInit

\* An unknown command followed by argument tokens failed at the lookup
C8_Witness ==
    /\ UnknownCommand
    /\ pc = "Done"
    /\ RunCount(line_str) > 2
    /\ steps[Len(steps)] = "lookup"
    /\ result = "false"


(***************************************************************************)
(* C9                                                                      *)
(***************************************************************************)
\* The command resolves and the number of argument tokens is not the
\* signature's type count
ArityMismatch ==
    /\ pc \notin {"Unit", "UnitDone"}
    /\ FirstViolation(line_null, line_str, table) = "arity_check"

\* C9: for every resolved command whose (token count - 1) differs from the
\* signature's type_count_u8, the dispatch returns false before any argument
\* parser runs and without invocation; validate_argument_count returns false
\* for a null signature whatever the token count, and for a signature it
\* returns whether (token count - 1) is the type count.
C9_ArityMismatchFails ==
    /\ ArityMismatch =>
          /\ invoked = 0
          /\ result # "true"
          /\ pc # "Crashed"
          /\ pc = "Done" => result = "false" /\ steps[Len(steps)] = "arity_check"
          /\ \A i \in 1..Len(steps) : Rank(steps[i]) <= Rank("arity_check")
          /\ args_a = [i \in 1..MAX_TOKENS |-> ArgZero]
          /\ scratch = ScratchInit
    /\ (pc = "UnitDone" /\ unit.op = "validate_argument_count") =>
          /\ unit.in_sig = 0 => ~unit.ret
          /\ (unit.in_sig # 0 /\ unit.in_count > 0) =>
                (unit.ret <=> unit.in_count - 1 = table[unit.in_sig].type_count_u8)

\* A resolved command with one argument too many was refused at the arity check
C9_Witness ==
    /\ ArityMismatch
    /\ pc = "Done"
    /\ RunCount(line_str) - 1 = table[sig_pst].type_count_u8 + 1
    /\ result = "false"
    /\ steps[Len(steps)] = "arity_check"


(***************************************************************************)
(* C10                                                                     *)
(***************************************************************************)
\* C10: no string or binary argument longer than MAX_ARG_CONTENT_SIZE bytes
\* is delivered to a handler, and a dispatch whose string token or decoded hex
\* token is longer returns false without invocation.
C10_NoOversizeArgumentDelivered ==
    /\ \A j \in 1..Len(delivered) :
          delivered[j].type \in {TYPE_STRING_e, TYPE_UINT8_PTR_e} =>
              Len(delivered[j].bytes) <= MAX_ARG_CONTENT_SIZE
    /\ (/\ pc = "Done"
        /\ FirstViolation(line_null, line_str, table) \in {"parse_arg", "none"}
        /\ LET sig == table[sig_pst]
           IN  \E i \in 1..sig.type_count_u8 :
                  \/ /\ sig.types_e[i] = TYPE_STRING_e
                     /\ Len(RunText(line_str, i + 1)) > MAX_ARG_CONTENT_SIZE
                  \/ /\ sig.types_e[i] = TYPE_UINT8_PTR_e
                     /\ Len(RunText(line_str, i + 1)) > 2 * MAX_ARG_CONTENT_SIZE)
       => (result = "false" /\ invoked = 0)


(***************************************************************************)
(* C11                                                                     *)
(***************************************************************************)
\* C11: ce_dispatch_from_line rejects a line before tokenization and without
\* invocation if and only if its length is at least MAX_LINE_BUF_SIZE; every
\* shorter line reaches the tokenizer, copied whole into line_buf.
C11_RejectedIffTooLong ==
    (pc \notin {"Unit", "UnitDone"} /\ ~line_null) =>
        /\ Len(line_str) >= MAX_LINE_BUF_SIZE =>
              /\ \A i \in 1..Len(steps) : Rank(steps[i]) <= Rank("length_check")
              /\ invoked = 0
              /\ line_buf = Zeros(MAX_LINE_BUF_SIZE)
              /\ pc = "Done" => result = "false" /\ steps[Len(steps)] = "length_check"
        /\ Len(line_str) < MAX_LINE_BUF_SIZE =>
              /\ pc = "Tokenize" =>
                    line_buf = line_str \o Zeros(MAX_LINE_BUF_SIZE - Len(line_str))
              /\ pc \in {"Done", "Crashed"} =>
                    \E i \in 1..Len(steps) : steps[i] = "tokenize"

\* A line of MAX_LINE_BUF_SIZE - 1 characters stands whole in line_buf, about
\* to be tokenized
C11_Witness ==
    /\ pc = "Tokenize"
    /\ Len(line_str) = MAX_LINE_BUF_SIZE - 1
    /\ line_buf[MAX_LINE_BUF_SIZE - 1] = line_str[MAX_LINE_BUF_SIZE - 1]
    /\ line_buf[MAX_LINE_BUF_SIZE] = 0


----------------------------------------------------------------------------
\* Unsigned parsers

AllDigits(s) == \A i \in 1..Len(s) : s[i] \in 48..57

\* the number a string of decimal digits denotes
DecimalValue(s) == NatNorm([i \in 1..Len(s) |-> s[i] - 48] \o <<>>)

UnsignedValid(w, s) ==
    /\ s # <<>>
    /\ AllDigits(s)
    /\ NatLE(DecimalValue(s), UnsignedMax(w))

\* C12: parse_uN(s) returns true if and only if s is non-empty, all decimal
\* digits and at most UINTN_MAX in value; on success the output is that value,
\* leading zeros ignored; render(v) round-trips and render(UINTN_MAX + 1) fails.
C12_UnsignedAcceptsExactlyInRange ==
    (pc = "UnitDone" /\ unit.op = "parse_unsigned") =>
        /\ unit.ret <=> UnsignedValid(unit.width, unit.in_line)
        /\ unit.ret => unit.val = DecimalValue(unit.in_line)
        /\ unit.in_line = Render(NatAdd(UnsignedMax(unit.width), <<1>>)) => ~unit.ret
        /\ \A w \in Widths :
              (unit.in_line = Render(UnsignedMax(w)) /\ w <= unit.width) =>
                  unit.ret /\ Render(unit.val) = unit.in_line

C12_Witness ==
    /\ pc = "UnitDone" /\ unit.op = "parse_unsigned"
    /\ unit.width = 64
    /\ unit.in_line = Str("00") \o Render(UINT64_MAX)
    /\ unit.ret
    /\ unit.val = UINT64_MAX

----------------------------------------------------------------------------
\* Signed parsers

Signed(s) == s # <<>> /\ s[1] \in {43, 45}

Unsigned(s) == IF Signed(s) THEN SubSeq(s, 2, Len(s)) ELSE s

SignedValid(w, s) ==
    /\ Unsigned(s) # <<>>
    /\ AllDigits(Unsigned(s))
    /\ NatLE(DecimalValue(Unsigned(s)),
             IF s[1] = 45 THEN NatAdd(SignedMax(w), <<1>>) ELSE SignedMax(w))

C27_NegationStaysInRange ==
    (pc = "UnitDone" /\ unit.op = "parse_signed" /\ unit.width \in {32, 64}) =>
        /\ ~unit.ub
        /\ ~unit.stopped

----------------------------------------------------------------------------
\* Overflow detection

\* C14: in every integer parser and for every input, the accumulator after each
\* digit is at most the type's limit, and neither the multiplication by 10 nor
\* the addition of the digit (nor the subtraction in the test before it) leaves
\* the range of the accumulator's C type.
C14_AccumulatorNeverWraps ==
    (pc = "UnitDone" /\ unit.op \in {"parse_unsigned", "parse_signed"}) =>
        ~unit.wrapped /\ ~unit.over

C14_Witness ==
    /\ pc = "UnitDone" /\ unit.op = "parse_unsigned"
    /\ unit.width = 64
    /\ unit.in_line = Render(UINT64_MAX) \o Str("0")
    /\ ~unit.ret
    /\ ~unit.wrapped /\ ~unit.over

----------------------------------------------------------------------------
\* Hash

\* h * 33 + byte modulo 2^32, on the two 16-bit halves of h
Times33Plus(h, byte) ==
    LET lo == (h[2] * 33) + byte
        hi == (h[1] * 33) + (lo \div 65536)
    IN  <<hi % 65536, lo % 65536>>

\* (the test h = h makes TLC compute h before it goes on)
RECURSIVE Djb2From(_, _, _)
Djb2From(h, s, i) ==
    IF i > Len(s) THEN h
    ELSE LET next == Times33Plus(h, s[i])
         IN  IF next = next THEN Djb2From(next, s, i + 1) ELSE h

Djb2(s) == Djb2From(<<0, 5381>>, s, 1)

\* C15: ce_hash_calculate(s) is the 32-bit DJB2 digest of s, seed 5381 and
\* hash = hash * 33 + byte modulo 2^32 with each byte taken as its value
\* 1..255; the empty string gives 5381 and a null input gives 0.
C15_HashIsDjb2OfBytes ==
    (pc = "UnitDone" /\ unit.op = "ce_hash_calculate") =>
        /\ unit.in_null => unit.hash = <<0, 0>>
        /\ ~unit.in_null => unit.hash = Djb2(unit.in_line)
        /\ (~unit.in_null /\ unit.in_line = <<>>) => unit.hash = <<0, 5381>>

----------------------------------------------------------------------------
\* Hex strings

HexDigit(c) == c \in (48..57) \cup (65..70) \cup (97..102)

HexValid(s, max_len) ==
    /\ s # <<>>
    /\ Len(s) % 2 = 0
    /\ \A i \in 1..Len(s) : HexDigit(s[i])
    /\ Len(s) \div 2 <= max_len

\* C16: parse_hex_string returns true if and only if s is non-empty, of even
\* length, made of hex digits of either case and of at most max_len bytes; on
\* success *out_len is len / 2 and byte i is 16 * value(s[2i]) + value(s[2i+1]),
\* both letter cases decoding to the same bytes.
C16_HexDecodesExactlyValidStrings ==
    (pc = "UnitDone" /\ unit.op = "parse_hex_string") =>
        /\ unit.ret <=> HexValid(unit.in_line, unit.in_count)
        /\ unit.in_count = 0 => ~unit.ret
        /\ unit.ret =>
              /\ unit.count = Len(unit.in_line) \div 2
              /\ unit.out = HexBytes(unit.in_line)
              /\ unit.out = HexBytes(Lowered(unit.in_line))

C16_Witness ==
    /\ pc = "UnitDone" /\ unit.op = "parse_hex_string"
    /\ unit.in_line = Str("0A1b")
    /\ unit.in_count = 2
    /\ unit.ret
    /\ unit.out = <<10, 27>>
    /\ unit.count = 2

----------------------------------------------------------------------------
\* Booleans

\* C17: parse_boolean_token(t) succeeds with true iff t is "true" in any letter
\* case or exactly "1", succeeds with false iff t is "false" in any letter case
\* or exactly "0", and fails for every other string.
C17_BooleanAcceptsExactlyLiterals ==
    (pc = "UnitDone" /\ unit.op = "parse_boolean_token") =>
        /\ (unit.ret /\ unit.b) <=>
              (Lowered(unit.in_line) = Str("true") \/ unit.in_line = Str("1"))
        /\ (unit.ret /\ ~unit.b) <=>
              (Lowered(unit.in_line) = Str("false") \/ unit.in_line = Str("0"))
        /\ unit.in_line \in {Str(""), Str("tru"), Str("truex"), Str("01"), Str("yes")}
              => ~unit.ret

C17_Witness ==
    /\ pc = "UnitDone" /\ unit.op = "parse_boolean_token"
    /\ unit.in_line = Str("FaLsE")
    /\ unit.ret
    /\ ~unit.b

----------------------------------------------------------------------------
\* The caller's line

\* C18: no step of a ce_dispatch_from_line call, successful or failed, changes
\* the caller's line_str: the NUL terminators of tokenization go into line_buf,
\* the call's private copy.
C18_CallerLineUnchanged ==
    [][line_str' = line_str /\ line_null' = line_null]_vars

\* a call has returned true after the tokenizer wrote terminators into its copy
C18_Witness ==
    /\ pc = "Done" /\ result = "true"
    /\ \E i \in 1..Len(line_str) : line_str[i] = 32 /\ line_buf[i] = 0

----------------------------------------------------------------------------
\* Lookup

Matches(tbl, hash) == {k \in 1..Len(tbl) : tbl[k].hash_u32 = hash}

\* C19: for every table, sorted or not and with or without duplicate hashes,
\* lookup_signature_by_hash returns the lowest-index entry whose hash equals the
\* query, and NULL if and only if no entry has that hash.
C19_LookupFirstMatch ==
    (pc = "UnitDone" /\ unit.op = "lookup_signature_by_hash") =>
        /\ unit.count = 0 <=> Matches(unit.tbl, unit.hash) = {}
        /\ unit.count # 0 =>
              /\ unit.count \in Matches(unit.tbl, unit.hash)
              /\ \A k \in Matches(unit.tbl, unit.hash) : unit.count <= k

\* an unsorted table with the queried hash at its second and third entries
C19_Witness ==
    /\ pc = "UnitDone" /\ unit.op = "lookup_signature_by_hash"
    /\ unit.tbl = <<[hash_u32 |-> <<1, 0>>], [hash_u32 |-> <<0, 1>>],
                    [hash_u32 |-> <<0, 1>>]>>
    /\ unit.hash = <<0, 1>>
    /\ unit.count = 2

----------------------------------------------------------------------------
\* Independence of the dispatches before

RECURSIVE BinaryBytesFrom(_, _, _)
BinaryBytesFrom(line, sig, j) ==
    IF j > sig.type_count_u8 THEN 0
    ELSE (IF sig.types_e[j] = TYPE_UINT8_PTR_e THEN Len(RunText(line, j + 1)) \div 2 ELSE 0)
         + BinaryBytesFrom(line, sig, j + 1)

\* How many bytes the binary arguments of a valid line decode to
BinaryBytes(line, tbl) == BinaryBytesFrom(line, tbl[Entry(tbl, RunText(line, 1))], 1)

RECURSIVE BinaryBytesBefore(_, _, _)
BinaryBytesBefore(line, sig, j) ==
    IF j <= 1 THEN 0
    ELSE (IF sig.types_e[j - 1] = TYPE_UINT8_PTR_e
          THEN Len(RunText(line, j)) \div 2 ELSE 0)
         + BinaryBytesBefore(line, sig, j - 1)

\* The loop of parse_arguments has been entered
InArgumentLoop ==
    /\ pc \in {"ParseArg", "Invoke", "Done", "Crashed"}
    /\ \E n \in 1..Len(steps) : steps[n] = "enter_dispatch"

\* C24: within one dispatch, the span of every binary argument parsed so far
\* starts at the scratch offset equal to the total decoded length of the binary
\* arguments before it, the spans of distinct binary arguments are disjoint,
\* and every span still holds the bytes its token decodes to
C24_BinarySpansDisjoint ==
    InArgumentLoop =>
        LET sig == table[sig_pst]
            binary == {j \in 1..arg_i : sig.types_e[j] = TYPE_UINT8_PTR_e}
            len(j) == Len(RunText(line_str, j + 1)) \div 2
        IN  /\ \A j \in binary :
                  /\ args_a[j].ptr = BinaryBytesBefore(line_str, sig, j)
                  /\ SubSeq(scratch.mem, args_a[j].ptr + 1, args_a[j].ptr + len(j))
                        = HexBytes(RunText(line_str, j + 1))
            /\ \A j, k \in binary :
                  j < k => args_a[j].ptr + len(j) <= args_a[k].ptr

\* The first argument (from 1) of a line of the right count that its parser
\* rejects
FirstRejected(line, sig) ==
    CHOOSE i \in 1..sig.type_count_u8 :
        /\ ~ArgParses(sig.types_e[i], RunText(line, i + 1))
        /\ \A j \in 1..(i - 1) : ArgParses(sig.types_e[j], RunText(line, j + 1))

\* C25: parse_arguments parses the tokens in index order and returns false at
\* the first token whose parser fails: the loop never gets past that index,
\* no entry of the argument array after it is written, the handler is not
\* called, and the scratch cursor stays where the binary arguments before the
\* failing one left it
C25_StopsAtFirstRejectedToken ==
    (InArgumentLoop /\ FirstViolation(line_null, line_str, table) = "parse_arg") =>
        LET sig == table[sig_pst]
            first == FirstRejected(line_str, sig)
        IN  /\ arg_i < first
            /\ \A k \in (first + 1)..MAX_TOKENS : args_a[k] = ArgZero
            /\ pc \in {"ParseArg", "Done"}
            /\ pc = "Done" =>
                  /\ result = "false" /\ invoked = 0
                  /\ arg_i = first - 1
                  /\ Cardinality({n \in 1..Len(steps) : steps[n] = "parse_arg"}) = first
                  /\ scratch.used = BinaryBytesBefore(line_str, sig, first)

C30_FailureLeavesOutputsAlone ==
    pc = "UnitDone" =>
        /\ unit.op = "parse_hex_string" =>
              LET len == Len(unit.in_line)
                  max_len == unit.in_count
                  half == len \div 2
                  from == IF half < max_len THEN half ELSE max_len
              IN  /\ (len = 0 \/ len % 2 = 1 \/ half > max_len) =>
                        /\ ~unit.ret
                        /\ \A k \in 1..Len(unit.out_buf) : unit.out_buf[k] = unit.prior.fill
                  /\ Len(unit.out_buf) = max_len + 2
                  /\ \A k \in (from + 1)..Len(unit.out_buf) :
                        unit.out_buf[k] = unit.prior.fill
                  /\ ~unit.ret => unit.count = unit.prior.len
        /\ (unit.op = "parse_unsigned" /\ ~unit.ret) => unit.val = unit.prior.val
        /\ (unit.op = "parse_signed" /\ ~unit.ret) =>
              unit.val = unit.prior.val /\ unit.neg = unit.prior.neg
        /\ (unit.op = "parse_boolean_token" /\ ~unit.ret) => unit.b = unit.prior.b

\* parse_hex_string has failed at the third pair of a string of four pairs,
\* after it stored two bytes in a buffer of five that held other values
C30_Witness ==
    /\ pc = "UnitDone" /\ unit.op = "parse_hex_string" /\ ~unit.ret
    /\ unit.in_line = Str("0102zz04") /\ unit.in_count = 5
    /\ unit.prior.fill = 238 /\ unit.prior.len = 77
    /\ unit.out_buf = <<1, 2, 238, 238, 238, 238, 238>>
    /\ unit.count = 77

(***************************************************************************)
(* The history log                                                         *)
(***************************************************************************)
\* C21: a call of ce_dispatch_from_line that has returned false has appended at
\* least one record to the history log during the call, whatever made it fail,
\* and a call that has returned true has appended none
C21_FalseLogsTrueDoesNot ==
    pc = "Done" =>
        /\ result = "false" => Len(log_calls) >= 1
        /\ result = "true" => log_calls = <<>>

\* C26: after n calls of log_event, log_history_idx lies in [0, LOG_HISTORY_SIZE)
\* and equals n mod LOG_HISTORY_SIZE, the buffer holds the most recent
\* min(n, LOG_HISTORY_SIZE) records, each in the slot of its number modulo the
\* size (so a new record replaces the oldest one), and the slots never written
\* hold their initial zeros
C26_RingHoldsMostRecent ==
    LET n == Len(log_calls)
    IN  /\ log_history_idx \in 0..(LOG_HISTORY_SIZE - 1)
        /\ log_history_idx = n % LOG_HISTORY_SIZE
        /\ Len(log_history) = LOG_HISTORY_SIZE
        /\ \A j \in 1..n :
              j > n - LOG_HISTORY_SIZE =>
                  log_history[((j - 1) % LOG_HISTORY_SIZE) + 1] = log_calls[j]
        /\ \A k \in (n + 1)..LOG_HISTORY_SIZE :
              log_history[k] = [file_id |-> 0, line |-> 0]

\* the eleventh record has replaced the first one, which was a different record
C26_Witness ==
    /\ Len(log_calls) = LOG_HISTORY_SIZE + 1
    /\ log_history_idx = 1
    /\ log_calls[1] # log_calls[LOG_HISTORY_SIZE + 1]
    /\ log_history[1] = log_calls[LOG_HISTORY_SIZE + 1]
    /\ log_history[2] = log_calls[2]

(***************************************************************************)
(* Two interleaved calls                                                   *)
(***************************************************************************)
\* The locals c of a call are what the call's own line makes them: the tokens
\* are the runs of its line, the signature is the one of its command, the
\* binary arguments parsed so far, while they fit the scratch buffer together,
\* lie in the call's scratch with the bytes of its own tokens, and a call that
\* has returned failed at the first violation of its line or delivered its
\* tokens
AsAlone(c) ==
    LET first == FirstViolation(c.line_null, c.line_str, table)
        n == Len(c.steps)
    IN  /\ c.pc \in {"NullCheck", "LengthCheck"} => c.line_buf = Zeros(MAX_LINE_BUF_SIZE)
        /\ c.pc = "Tokenize" =>
              c.line_buf = c.line_str \o Zeros(MAX_LINE_BUF_SIZE - Len(c.line_str))
        /\ c.pc \in {"NoCommandCheck", "Lookup", "ArityCheck", "EnterDispatch",
                     "ParseArg", "Invoke"} =>
              TokensAreRuns(c.line_str, c.line_buf, c.tokens_apc, c.tokens_count)
        /\ c.pc \in {"ArityCheck", "EnterDispatch", "ParseArg", "Invoke"} =>
              c.sig_pst = Entry(table, RunText(c.line_str, 1))
        /\ c.pc \in {"ParseArg", "Invoke"} =>
              \A j \in 1..c.arg_i :
                  (/\ table[c.sig_pst].types_e[j] = TYPE_UINT8_PTR_e
                   /\ BinaryBytesBefore(c.line_str, table[c.sig_pst], c.arg_i + 1)
                         <= MAX_ARG_CONTENT_SIZE) =>
                      /\ c.args_a[j].ptr = BinaryBytesBefore(c.line_str, table[c.sig_pst], j)
                      /\ SubSeq(c.scratch.mem, c.args_a[j].ptr + 1,
                                c.args_a[j].ptr + (Len(RunText(c.line_str, j + 1)) \div 2))
                            = HexBytes(RunText(c.line_str, j + 1))
        /\ (c.pc = "Done" /\ first # "none") =>
              c.result = "false" /\ c.steps[n] = first /\ c.invoked = 0
        /\ (c.pc = "Done" /\ first = "none") =>
              /\ c.steps[n] = "invoke" /\ c.invoked = 1
              /\ c.result = "true" <=> c.handler_ret
              /\ BinaryBytes(c.line_str, table) <= MAX_ARG_CONTENT_SIZE =>
                    /\ Len(c.delivered) = table[c.sig_pst].type_count_u8
                    /\ \A j \in 1..Len(c.delivered) :
                          /\ c.delivered[j].type = table[c.sig_pst].types_e[j]
                          /\ Received(c.delivered[j], table[c.sig_pst].types_e[j],
                                      RunText(c.line_str, j + 1))

Tokens(line) == [n \in 1..RunCount(line) |-> RunText(line, n)] \o <<>>

\* C28: two lines shorter than MAX_LINE_BUF_SIZE with the same sequence of
\* tokens give the same dispatch outcome, whichever separator characters are
\* used, however many stand between the tokens and whatever whitespace leads
\* or trails: both calls resolve the same signature, call the handler equally
\* often with the same arguments, and return the same value when the handler
\* returns the same
C28_SameTokensSameOutcome ==
    (/\ pc = "Done" /\ other.pc = "Done"
     /\ Len(line_str) < MAX_LINE_BUF_SIZE /\ Len(other.line_str) < MAX_LINE_BUF_SIZE
     /\ Tokens(line_str) = Tokens(other.line_str)) =>
        /\ sig_pst = other.sig_pst
        /\ invoked = other.invoked
        /\ delivered = other.delivered
        /\ steps = other.steps
        /\ handler_ret = other.handler_ret => result = other.result

\* "cat_bytes 010203 3" and the same tokens behind two spaces, between space,
\* tab and space, and before a trailing space, have both been dispatched with
\* the bytes 01 02 03
C28_Witness ==
    /\ pc = "Done" /\ other.pc = "Done"
    /\ line_str # other.line_str
    /\ Tokens(line_str) = <<Str("cat_bytes"), Str("010203"), Str("3")>>
    /\ Tokens(other.line_str) = Tokens(line_str)
    /\ result = "true" /\ other.result = "true"
    /\ delivered[1].bytes = <<1, 2, 3>>
    /\ other.delivered[1].bytes = <<1, 2, 3>>


\* A call got as far as the lookup
LookedUp(c) == \E n \in 1..Len(c.steps) : c.steps[n] = "lookup"

\* The first table entry with the digest h, 0 when there is none
FirstWithDigest(tbl, h) ==
    IF \E k \in 1..Len(tbl) : tbl[k].hash_u32 = h
    THEN CHOOSE k \in 1..Len(tbl) :
            /\ tbl[k].hash_u32 = h
            /\ \A j \in 1..(k - 1) : tbl[j].hash_u32 # h
    ELSE 0

\* C29: command resolution depends only on the 32-bit digest of token 0 and
\* the name text is never compared: a call that looks its command up gets the
\* first entry whose hash is the digest computed from its first token, and two lines
\* whose first tokens have equal digests and whose remaining tokens are equal
\* resolve to the same signature and give the same outcome, so that a name
\* that is not registered but has the digest of a registered name is
\* dispatched to that command's handler
C29_ResolutionByDigestOnly ==
    /\ (pc = "Done" /\ LookedUp(Context)) =>
          sig_pst = FirstWithDigest(table, hash_u32)
    /\ (/\ pc = "Done" /\ other.pc = "Done"
        /\ LookedUp(Context) /\ LookedUp(other)
        /\ hash_u32 = other.hash_u32
        /\ Tail(Tokens(line_str)) = Tail(Tokens(other.line_str))) =>
          /\ sig_pst = other.sig_pst
          /\ invoked = other.invoked
          /\ delivered = other.delivered
          /\ handler_ret = other.handler_ret => result = other.result

\* "cat_byuD" is no command of the table and has the digest of "cat_byte": the
\* line "cat_byuD<tab>22<newline>" has called the handler of cat_byte with 22,
\* as the line "cat_byte 22" has
C29_Witness ==
    /\ pc = "Done" /\ other.pc = "Done"
    /\ Tokens(line_str) = <<Str("cat_byuD"), Str("22")>>
    /\ Tokens(other.line_str) = <<Str("cat_byte"), Str("22")>>
    /\ hash_u32 = other.hash_u32
    /\ sig_pst = 2 /\ other.sig_pst = 2
    /\ invoked = 1 /\ other.invoked = 1
    /\ result = "true"
    /\ delivered[1].val = <<2, 2>> /\ other.delivered[1].val = <<2, 2>>

====
